---- MODULE Spec2Model ----
(***************************************************************************)
(* Model of the `mcr` procedural macro crate of tms: the block schedule    *)
(* iterator (BlkItr), and the four functions that `u32_blk!(B)` generates  *)
(* from it: u32xB_pck, u32xB_unp, u32xB_bit_len and u32xB_byt_len.         *)
(*                                                                         *)
(* A u32 is modelled with all of its 32 bits (as two 16-bit halves), and   *)
(* arithmetic is modulo 2^32.  A SIMD vector (m256 / u32x8) is a tuple of  *)
(* 8 u32 lanes.                                                            *)
(* Memory (the `pck` byte slice) is a tuple of bytes, each in 0..255, laid *)
(* out little-endian as on the x86 target the intrinsics are written for.  *)
(***************************************************************************)
EXTENDS Integers, Sequences, FiniteSets, TLC

\* ---------------------------------------------------------------- constants
BIT_PER_BYT == 8
BIT_PER_ELM == 32
BYT_PER_ELM == 4
BIT_PER_LNE == 32
BIT_PER_SMD == 256
BYT_PER_SMD == 32
ELM_PER_SMD == 8
MIN_ELM_PER_BLK == 16

\* ------------------------------------------------------------------- u32
\* A u32 is the pair <<hi, lo>> of its two 16-bit halves, each in 0..65535:
\* its value is hi * 2^16 + lo.  All 32 bits are kept, and every operation
\* below is the operation of the machine on 32-bit lanes (modulo 2^32).
Lanes == 1 .. ELM_PER_SMD

Pow2Tab == <<1, 2, 4, 8, 16, 32, 64, 128, 256, 512, 1024, 2048, 4096, 8192,
             16384, 32768, 65536>>
\* 2^n for n in 0..16
Pow2(n) == Pow2Tab[n + 1]
Half == Pow2(16)

\* The u32 whose value is the natural number n (n < 2^31).
U32(n) == <<n \div Half, n % Half>>
\* The u32 with the k low bits set: 2^k - 1, for k in 0..32.
LowBits(k) ==
  IF k >= 16 THEN <<Pow2(k - 16) - 1, Half - 1>> ELSE <<0, Pow2(k) - 1>>
\* The u32 with only bit k set: 2^k, for k in 0..31.
OneBit(k) == IF k >= 16 THEN <<Pow2(k - 16), 0>> ELSE <<0, Pow2(k)>>
U32_MAX == LowBits(BIT_PER_ELM)

wrapping_add(a, b) ==
  LET lo == a[2] + b[2]
  IN  <<(a[1] + b[1] + (lo \div Half)) % Half, lo % Half>>
wrapping_sub(a, b) ==
  LET lo == a[2] - b[2]
      bw == IF lo < 0 THEN 1 ELSE 0
  IN  <<(a[1] - b[1] - bw + Half) % Half, (lo + Half) % Half>>

\* The tuple with the elements of the function f on 1..n, each computed once.
Tup(f) == f \o <<>>

\* Bitwise AND of two n-bit numbers (n a power of two): of their high halves
\* and of their low halves, down to single bits.
RECURSIVE AndBits(_, _, _)
AndBits(x, y, n) ==
  IF x = 0 \/ y = 0 THEN 0
  ELSE IF n = 1 THEN 1
  ELSE AndBits(x \div Pow2(n \div 2), y \div Pow2(n \div 2), n \div 2) * Pow2(n \div 2)
       + AndBits(x % Pow2(n \div 2), y % Pow2(n \div 2), n \div 2)
\* Bitwise AND of two bytes, tabulated: AndTab[x + 1][y + 1] = x & y.
AndTab ==
  Tup([i \in 1 .. Pow2(BIT_PER_BYT) |->
         Tup([j \in 1 .. Pow2(BIT_PER_BYT) |-> AndBits(i - 1, j - 1, BIT_PER_BYT)])])
\* Bitwise AND and OR of two 16-bit halves.
And16(x, y) ==
  AndTab[(x \div Pow2(BIT_PER_BYT)) + 1][(y \div Pow2(BIT_PER_BYT)) + 1] * Pow2(BIT_PER_BYT)
    + AndTab[(x % Pow2(BIT_PER_BYT)) + 1][(y % Pow2(BIT_PER_BYT)) + 1]
Or16(x, y) == x + y - And16(x, y)
bitor(a, b) == <<Or16(a[1], b[1]), Or16(a[2], b[2])>>
bitand(a, b) == <<And16(a[1], b[1]), And16(a[2], b[2])>>

\* Logical shifts of a 32-bit lane by an immediate s in 0..31; the bits
\* shifted out are lost, zeros are shifted in.
shl(x, s) ==
  IF s >= 16 THEN <<(x[2] * Pow2(s - 16)) % Half, 0>>
  ELSE LET lo == x[2] * Pow2(s)
       IN  <<(x[1] * Pow2(s) + (lo \div Half)) % Half, lo % Half>>
shr(x, s) ==
  IF s >= 16 THEN <<0, x[1] \div Pow2(s - 16)>>
  ELSE <<x[1] \div Pow2(s), (x[2] \div Pow2(s)) + (x[1] % Pow2(s)) * Pow2(16 - s)>>

\* Number of significant bits of an n-bit number (n a power of two).
RECURSIVE SigBits(_, _)
SigBits(x, n) ==
  IF n = 1 THEN x
  ELSE IF x >= Pow2(n \div 2) THEN (n \div 2) + SigBits(x \div Pow2(n \div 2), n \div 2)
  ELSE SigBits(x, n \div 2)
\* Number of significant bits of a 16-bit half.
BitLen16(x) == SigBits(x, 16)
\* The count taken in the low half only.
leading_zeros_low(x) == BIT_PER_ELM - BitLen16(x[2])
\* u32::leading_zeros
leading_zeros(x) ==
  IF x[1] # 0 THEN 16 - BitLen16(x[1]) ELSE BIT_PER_ELM - BitLen16(x[2])

\* The mask without its subtraction: (1u32 << w).
MskLitNoSub(w) == shl(U32(1), w)

\* ((1u32 << w) - 1u32), for w in 1..31
MskLit(w) == wrapping_sub(shl(U32(1), w), U32(1))

\* --------------------------------------------------------- SIMD intrinsics
set1(x) == Tup([l \in Lanes |-> x])
add(a, b) == Tup([l \in Lanes |-> wrapping_add(a[l], b[l])])
sub(a, b) == Tup([l \in Lanes |-> wrapping_sub(a[l], b[l])])
and(a, b) == Tup([l \in Lanes |-> bitand(a[l], b[l])])
or(a, b) == Tup([l \in Lanes |-> bitor(a[l], b[l])])
lft(a, s) == Tup([l \in Lanes |-> shl(a[l], s)])
rht(a, s) == Tup([l \in Lanes |-> shr(a[l], s)])

horizontal_or(v) ==
  bitor(bitor(bitor(v[1], v[2]), bitor(v[3], v[4])),
        bitor(bitor(v[5], v[6]), bitor(v[7], v[8])))

\* ------------------------------------------------------------------ memory
\* Byte k (0..3) of a u32 in memory: little-endian, byte 0 is the low byte.
ByteOf(x, k) ==
  CASE k = 0 -> x[2] % 256
    [] k = 1 -> x[2] \div 256
    [] k = 2 -> x[1] % 256
    [] k = 3 -> x[1] \div 256

\* The u32 read from the 4 bytes of mem (1-based tuple) at byte offset off.
U32At(mem, off) ==
  <<mem[off + 3] + 256 * mem[off + 4], mem[off + 1] + 256 * mem[off + 2]>>

\* The bytes of a slice of u32 values, as `unp.as_ptr() as *const u8` sees them.
BytesOf(elms) ==
  Tup([p \in 1 .. (BYT_PER_ELM * Len(elms)) |->
         ByteOf(elms[((p - 1) \div BYT_PER_ELM) + 1], (p - 1) % BYT_PER_ELM)])

\* The u32 values held by a byte image whose length is a multiple of 4.
ElmsOf(bytes) ==
  Tup([e \in 1 .. (Len(bytes) \div BYT_PER_ELM) |-> U32At(bytes, BYT_PER_ELM * (e - 1))])

\* load(ptr.add(k)) on a *const m256 over a slice of u32 elements.
LoadElms(elms, k) == SubSeq(elms, ELM_PER_SMD * k + 1, ELM_PER_SMD * (k + 1))
\* store(ptr.add(k), v) on a *mut m256 over a slice of u32 elements.
StoreElms(elms, k, v) ==
  SubSeq(elms, 1, ELM_PER_SMD * k) \o v
    \o SubSeq(elms, ELM_PER_SMD * (k + 1) + 1, Len(elms))
\* load(ptr.add(k)) on a *const m256 over a slice of bytes.
LoadBytes(mem, k) == Tup([l \in Lanes |-> U32At(mem, BYT_PER_SMD * k + BYT_PER_ELM * (l - 1))])
\* store(ptr.add(k), v) on a *mut m256 over a slice of bytes.
StoreBytes(mem, k, v) ==
  SubSeq(mem, 1, BYT_PER_SMD * k) \o BytesOf(v)
    \o SubSeq(mem, BYT_PER_SMD * (k + 1) + 1, Len(mem))
SmdBytes(k) == (BYT_PER_SMD * k) .. (BYT_PER_SMD * (k + 1) - 1)

\* ------------------------------------------------------ schedule iterator
\* The iterator whose total is one vector of elements short.
blk_itr_short(elm_bit_len, elm_per_blk) ==
  [ bit_per_lne |-> BIT_PER_LNE,
    elm_bit_len |-> elm_bit_len,
    elm_per_blk |-> elm_per_blk,
    lne_bit_lim |-> BIT_PER_LNE - elm_bit_len + 1,
    blk_bit_len |-> elm_bit_len * (elm_per_blk - ELM_PER_SMD),
    prv |-> [ lne_bit_len |-> 0, lne_bit_sum |-> 0, blk_bit_sum |-> 0,
              shf_len |-> 0, shf_dir |-> "Zro" ] ]
\* The iterator whose limit lacks its `+ 1`.
blk_itr_lim(elm_bit_len, elm_per_blk) ==
  [ bit_per_lne |-> BIT_PER_LNE,
    elm_bit_len |-> elm_bit_len,
    elm_per_blk |-> elm_per_blk,
    lne_bit_lim |-> BIT_PER_LNE - elm_bit_len,
    blk_bit_len |-> elm_bit_len * elm_per_blk,
    prv |-> [ lne_bit_len |-> 0, lne_bit_sum |-> 0, blk_bit_sum |-> 0,
              shf_len |-> 0, shf_dir |-> "Zro" ] ]
\* blk_itr: the iterator's state before the first step.
blk_itr(elm_bit_len, elm_per_blk) ==
  [ bit_per_lne |-> BIT_PER_LNE,
    elm_bit_len |-> elm_bit_len,
    elm_per_blk |-> elm_per_blk,
    lne_bit_lim |-> BIT_PER_LNE - elm_bit_len + 1,
    blk_bit_len |-> elm_bit_len * elm_per_blk,
    prv |-> [ lne_bit_len |-> 0, lne_bit_sum |-> 0, blk_bit_sum |-> 0,
              shf_len |-> 0, shf_dir |-> "Zro" ] ]

\* The Itm whose Bck shifts by the previous lane sum.
ItrCurBckSum(self) ==
  IF self.prv.blk_bit_sum = 0 THEN
    [ shf_dir |-> "Zro", shf_len |-> 0,
      lne_bit_len |-> self.elm_bit_len,
      lne_bit_sum |-> self.elm_bit_len,
      blk_bit_sum |-> self.elm_bit_len * ELM_PER_SMD ]
  ELSE IF self.prv.lne_bit_sum < self.lne_bit_lim THEN
    [ shf_dir |-> "Fwd", shf_len |-> self.prv.lne_bit_sum,
      lne_bit_len |-> self.elm_bit_len,
      lne_bit_sum |-> self.prv.lne_bit_sum + self.elm_bit_len,
      blk_bit_sum |-> self.prv.blk_bit_sum + (self.elm_bit_len * ELM_PER_SMD) ]
  ELSE IF self.prv.lne_bit_sum < self.bit_per_lne THEN
    [ shf_dir |-> "FwdPrt", shf_len |-> self.prv.lne_bit_sum,
      lne_bit_len |-> self.bit_per_lne - self.prv.lne_bit_sum,
      lne_bit_sum |-> self.bit_per_lne,
      blk_bit_sum |-> self.prv.blk_bit_sum
                        + ((self.bit_per_lne - self.prv.lne_bit_sum) * ELM_PER_SMD) ]
  ELSE IF self.prv.lne_bit_len = self.elm_bit_len THEN
    [ shf_dir |-> "Zro", shf_len |-> 0,
      lne_bit_len |-> self.elm_bit_len,
      lne_bit_sum |-> self.elm_bit_len,
      blk_bit_sum |-> self.prv.blk_bit_sum + (self.elm_bit_len * ELM_PER_SMD) ]
  ELSE
    [ shf_dir |-> "Bck", shf_len |-> self.prv.lne_bit_sum,
      lne_bit_len |-> self.elm_bit_len - self.prv.lne_bit_len,
      lne_bit_sum |-> self.elm_bit_len - self.prv.lne_bit_len,
      blk_bit_sum |-> self.prv.blk_bit_sum
                        + ((self.elm_bit_len - self.prv.lne_bit_len) * ELM_PER_SMD) ]

\* The Itm that BlkItr::next computes from the previous one (`cur`).
ItrCur(self) ==
  IF self.prv.blk_bit_sum = 0 THEN
    [ shf_dir |-> "Zro", shf_len |-> 0,
      lne_bit_len |-> self.elm_bit_len,
      lne_bit_sum |-> self.elm_bit_len,
      blk_bit_sum |-> self.elm_bit_len * ELM_PER_SMD ]
  ELSE IF self.prv.lne_bit_sum < self.lne_bit_lim THEN
    [ shf_dir |-> "Fwd", shf_len |-> self.prv.lne_bit_sum,
      lne_bit_len |-> self.elm_bit_len,
      lne_bit_sum |-> self.prv.lne_bit_sum + self.elm_bit_len,
      blk_bit_sum |-> self.prv.blk_bit_sum + (self.elm_bit_len * ELM_PER_SMD) ]
  ELSE IF self.prv.lne_bit_sum < self.bit_per_lne THEN
    [ shf_dir |-> "FwdPrt", shf_len |-> self.prv.lne_bit_sum,
      lne_bit_len |-> self.bit_per_lne - self.prv.lne_bit_sum,
      lne_bit_sum |-> self.bit_per_lne,
      blk_bit_sum |-> self.prv.blk_bit_sum
                        + ((self.bit_per_lne - self.prv.lne_bit_sum) * ELM_PER_SMD) ]
  ELSE IF self.prv.lne_bit_len = self.elm_bit_len THEN
    [ shf_dir |-> "Zro", shf_len |-> 0,
      lne_bit_len |-> self.elm_bit_len,
      lne_bit_sum |-> self.elm_bit_len,
      blk_bit_sum |-> self.prv.blk_bit_sum + (self.elm_bit_len * ELM_PER_SMD) ]
  ELSE
    [ shf_dir |-> "Bck", shf_len |-> self.prv.lne_bit_len,
      lne_bit_len |-> self.elm_bit_len - self.prv.lne_bit_len,
      lne_bit_sum |-> self.elm_bit_len - self.prv.lne_bit_len,
      blk_bit_sum |-> self.prv.blk_bit_sum
                        + ((self.elm_bit_len - self.prv.lne_bit_len) * ELM_PER_SMD) ]

\* The order that never is Lst.
ItrKindNoLst(self, cur) == IF self.prv.blk_bit_sum = 0 THEN "Fst" ELSE "Mdl"
\* The iteration order of the step: Fst, Mdl or Lst.
ItrKind(self, cur) ==
  IF self.prv.blk_bit_sum = 0 THEN "Fst"
  ELSE IF cur.blk_bit_sum # self.blk_bit_len THEN "Mdl"
  ELSE "Lst"

\* BlkItr::next: None once all bits are done, else Some(step) and the new state.
BlkItrNext(self) ==
  IF self.prv.blk_bit_sum = self.blk_bit_len
  THEN [ some |-> FALSE, self |-> self ]
  ELSE LET cur == ItrCur(self)
       IN  [ some |-> TRUE, kind |-> ItrKind(self, cur), itm |-> cur,
             self |-> [self EXCEPT !.prv = cur] ]

\* The steps that up to k calls of next yield from the state `self`, and the
\* state they leave; no step is yielded once next has returned None.  (The
\* calls are split in two halves, which keeps the evaluation shallow.)
ItrCat(a, b) == [ out |-> a.out \o b.out, self |-> b.self ]
RECURSIVE ItrSteps(_, _)
ItrSteps(self, k) ==
  IF ~BlkItrNext(self).some THEN [self |-> self, out |-> <<>>]
  ELSE IF k <= 1 THEN
    [ self |-> BlkItrNext(self).self,
      out |-> <<[kind |-> BlkItrNext(self).kind, itm |-> BlkItrNext(self).itm]>> ]
  ELSE LET a == ItrSteps(self, k \div 2)
       IN  ItrCat(a, ItrSteps(a.self, k - (k \div 2)))

\* The steps of `a`, then those that next yields until it returns None, k
\* calls at a time.
RECURSIVE ItrRest(_, _)
ItrRest(a, k) ==
  IF BlkItrNext(a.self).some THEN ItrRest(ItrCat(a, ItrSteps(a.self, k)), k) ELSE a

\* The whole schedule for (w, B), as the `for cur in blk_itr(..)` loops see
\* it.  (A vector of the block takes one step, or two when its bits straddle
\* two packed vectors.)
Schedule(elm_bit_len, elm_per_blk) ==
  ItrRest([self |-> blk_itr(elm_bit_len, elm_per_blk), out |-> <<>>],
          2 * (elm_per_blk \div ELM_PER_SMD) + 1).out

\* ------------------------------------------------------------------ packer
\* The variables of a generated pack arm before its first statement.  `dlt`
\* is declared only by a FwdPrt step (`let dlt = ..`): until then it is <<>>.
\* wr: byte offsets of pck stored to; lds: unp vectors loaded, in order;
\* sts: pck vectors stored, in order.
PckVars(pck) ==
  [ prv |-> <<>>, cur |-> <<>>, smd_pck |-> <<>>, dlt |-> <<>>,
    pck |-> pck, wr |-> {}, lds |-> <<>>, sts |-> <<>>,
    pck_ptr_off |-> 0, unp_ptr_off |-> 1 ]

\* A store that keeps the bits the slot already holds.
PckStoreOr(st, k, v) ==
  [st EXCEPT !.pck = StoreBytes(st.pck, k, or(LoadBytes(st.pck, k), v)),
             !.wr = st.wr \cup SmdBytes(k),
             !.sts = Append(st.sts, k)]

\* store(pck_ptr.add(k), v) in a pack arm.
PckStore(st, k, v) ==
  [st EXCEPT !.pck = StoreBytes(st.pck, k, v),
             !.wr = st.wr \cup SmdBytes(k),
             !.sts = Append(st.sts, k)]

\* The statements emitted for one Mdl step, before the store of a full vector.
PckMdl(st, itm, unp) ==
  CASE itm.shf_dir = "Zro" ->
         LET cur == LoadElms(unp, st.unp_ptr_off)
         IN  [st EXCEPT !.cur = cur, !.smd_pck = sub(cur, st.prv), !.prv = cur,
                        !.lds = Append(st.lds, st.unp_ptr_off),
                        !.unp_ptr_off = st.unp_ptr_off + 1]
    [] itm.shf_dir = "Bck" ->
         [st EXCEPT !.smd_pck = rht(st.dlt, itm.shf_len)]
    [] itm.shf_dir = "Fwd" ->
         LET cur == LoadElms(unp, st.unp_ptr_off)
         IN  [st EXCEPT !.cur = cur,
                        !.smd_pck = or(st.smd_pck, lft(sub(cur, st.prv), itm.shf_len)),
                        !.prv = cur,
                        !.lds = Append(st.lds, st.unp_ptr_off),
                        !.unp_ptr_off = st.unp_ptr_off + 1]
    [] itm.shf_dir = "FwdPrt" ->
         LET cur == LoadElms(unp, st.unp_ptr_off)
             dlt == sub(cur, st.prv)
         IN  [st EXCEPT !.cur = cur, !.dlt = dlt,
                        !.smd_pck = or(st.smd_pck, lft(dlt, itm.shf_len)),
                        !.prv = cur,
                        !.lds = Append(st.lds, st.unp_ptr_off),
                        !.unp_ptr_off = st.unp_ptr_off + 1]

\* The statements emitted for the Lst step.
PckLst(st, itm, unp) ==
  CASE itm.shf_dir = "Zro" ->
         PckStore([st EXCEPT !.lds = Append(st.lds, st.unp_ptr_off)],
                  st.pck_ptr_off,
                  sub(LoadElms(unp, st.unp_ptr_off), st.prv))
    [] itm.shf_dir = "Bck" ->
         PckStore(st, st.pck_ptr_off, rht(st.dlt, itm.shf_len))
    [] itm.shf_dir \in {"Fwd", "FwdPrt"} ->
         PckStore([st EXCEPT !.lds = Append(st.lds, st.unp_ptr_off)],
                  st.pck_ptr_off,
                  or(st.smd_pck,
                     lft(sub(LoadElms(unp, st.unp_ptr_off), st.prv), itm.shf_len)))

\* The Fst step without the reference: the first vector is packed as it is.
PckFstNoRef(st, fst, unp) ==
  LET cur == LoadElms(unp, 0)
  IN  [st EXCEPT !.cur = cur, !.smd_pck = cur, !.prv = cur,
                 !.lds = Append(st.lds, 0)]

\* The statements emitted for the Fst step.
PckFst(st, fst, unp) ==
  LET cur == LoadElms(unp, 0)
  IN  [st EXCEPT !.cur = cur, !.smd_pck = sub(cur, set1(fst)), !.prv = cur,
                 !.lds = Append(st.lds, 0)]

\* The steps without `pck_ptr_off += 1` after the store of a full vector.
PckStepNoAdv(st, step, fst, unp) ==
  CASE step.kind = "Fst" -> PckFst(st, fst, unp)
    [] step.kind = "Mdl" ->
         LET s1 == PckMdl(st, step.itm, unp)
         IN  IF step.itm.lne_bit_sum = BIT_PER_LNE
             THEN PckStore(s1, s1.pck_ptr_off, s1.smd_pck)
             ELSE s1
    [] step.kind = "Lst" -> PckLst(st, step.itm, unp)

\* The statements emitted for one step of the schedule.
PckStep(st, step, fst, unp) ==
  CASE step.kind = "Fst" -> PckFst(st, fst, unp)
    [] step.kind = "Mdl" ->
         LET s1 == PckMdl(st, step.itm, unp)
         IN  IF step.itm.lne_bit_sum = BIT_PER_LNE
             THEN [PckStore(s1, s1.pck_ptr_off, s1.smd_pck)
                     EXCEPT !.pck_ptr_off = s1.pck_ptr_off + 1]
             ELSE s1
    [] step.kind = "Lst" -> PckLst(st, step.itm, unp)

\* The statements emitted for the steps lo .. hi of the schedule, in order:
\* those of the first half, then those of the second.  (unp_ptr_off starts
\* at 1 and only grows; reading it first has the steps evaluated in order.)
RECURSIVE PckSteps(_, _, _, _, _, _)
PckSteps(st, steps, lo, hi, fst, unp) ==
  IF st.unp_ptr_off < 1 \/ lo > hi THEN st
  ELSE IF lo = hi THEN PckStep(st, steps[lo], fst, unp)
  ELSE PckSteps(PckSteps(st, steps, lo, (lo + hi) \div 2, fst, unp),
                steps, ((lo + hi) \div 2) + 1, hi, fst, unp)
\* A pack arm for a width in 1..31: the statements emitted for all the steps.
PckArm(steps, fst, unp, pck) == PckSteps(PckVars(pck), steps, 1, Len(steps), fst, unp)

\* Arm 32 with the bytes of every element in the opposite (big-endian) order.
PckArm32Rev(unp, pck, past) ==
  LET src == Tup([p \in 1 .. (BYT_PER_ELM * Len(unp)) |->
                    ByteOf(unp[((p - 1) \div BYT_PER_ELM) + 1],
                           (BYT_PER_ELM - 1) - ((p - 1) % BYT_PER_ELM))])
  IN  [PckVars(pck) EXCEPT
         !.pck = Tup([p \in 1 .. Len(pck) |-> IF p <= Len(src) THEN src[p] ELSE past]),
         !.wr = 0 .. (Len(pck) - 1)]

\* Arm 32 of pack: ptr::copy_nonoverlapping(unp as *const u8, pck, pck.len()).
\* It copies pck.len() bytes; source bytes past the end of unp are not part
\* of the slice, and what is read there is whatever follows it (`past`).
PckArm32(unp, pck, past) ==
  LET src == BytesOf(unp)
  IN  [PckVars(pck) EXCEPT
         !.pck = Tup([p \in 1 .. Len(pck) |-> IF p <= Len(src) THEN src[p] ELSE past]),
         !.wr = 0 .. (Len(pck) - 1)]

\* The diagnostic of the `_ =>` arm: panic!("unsupported bit-length {}", elm_bit_len).
Unsupported(elm_bit_len) == <<"unsupported bit-length", elm_bit_len>>

\* The match with `_` in place of `32u8`: every width above 31 copies.
u32_blk_pck_wide(elm_per_blk, elm_bit_len, fst, unp, pck, past) ==
  IF elm_bit_len = 0 THEN [panic |-> <<>>, st |-> PckVars(pck)]
  ELSE IF elm_bit_len \in 1 .. 31 THEN
    [panic |-> <<>>,
     st |-> PckArm(Schedule(elm_bit_len, elm_per_blk), fst, unp, pck)]
  ELSE [panic |-> <<>>, st |-> PckArm32(unp, pck, past)]

\* u32xB_pck(elm_bit_len, fst, unp, pck): the match on elm_bit_len.  The
\* result is the panic message (<<>> if none) and the arm's final variables.
u32_blk_pck(elm_per_blk, elm_bit_len, fst, unp, pck, past) ==
  IF elm_bit_len = 0 THEN [panic |-> <<>>, st |-> PckVars(pck)]
  ELSE IF elm_bit_len \in 1 .. 31 THEN
    [panic |-> <<>>,
     st |-> PckArm(Schedule(elm_bit_len, elm_per_blk), fst, unp, pck)]
  ELSE IF elm_bit_len = 32 THEN [panic |-> <<>>, st |-> PckArm32(unp, pck, past)]
  ELSE [panic |-> Unsupported(elm_bit_len), st |-> PckVars(pck)]

\* ---------------------------------------------------------------- unpacker
\* The variables of a generated unpack arm before its first statement.
\* rd: byte offsets of pck loaded; uw: byte offsets of unp stored to (an
\* offset at or past 4 * unp.len() is a write outside the slice, and `ovf`
\* holds the bytes written there).
UnpVars(unp) ==
  [ prv |-> <<>>, cur |-> <<>>, smd_pck |-> <<>>, dlt |-> <<>>,
    unp |-> unp, uw |-> {}, rd |-> {}, ovf |-> <<>>,
    pck_ptr_off |-> 1, unp_ptr_off |-> 1 ]

\* store(unp_ptr.add(k), v) in an unpack arm.
UnpStore(st, k, v) ==
  [st EXCEPT !.unp = StoreElms(st.unp, k, v), !.uw = st.uw \cup SmdBytes(k)]

\* smd_pck = load(pck_ptr.add(k)) in an unpack arm.
UnpLoad(st, pck, k) ==
  [st EXCEPT !.smd_pck = LoadBytes(pck, k), !.rd = st.rd \cup SmdBytes(k)]

\* The statements emitted for one Mdl step, before the load of the next vector.
UnpMdl(st, itm, msk) ==
  CASE itm.shf_dir = "Zro" ->
         LET cur == add(st.prv, and(st.smd_pck, msk))
         IN  [UnpStore(st, st.unp_ptr_off, cur)
                EXCEPT !.cur = cur, !.prv = cur, !.unp_ptr_off = st.unp_ptr_off + 1]
    [] itm.shf_dir = "Bck" ->
         LET cur == add(st.prv, or(st.dlt, and(lft(st.smd_pck, itm.shf_len), msk)))
         IN  [UnpStore(st, st.unp_ptr_off, cur)
                EXCEPT !.cur = cur, !.prv = cur, !.unp_ptr_off = st.unp_ptr_off + 1]
    [] itm.shf_dir = "Fwd" ->
         LET cur == add(st.prv, and(rht(st.smd_pck, itm.shf_len), msk))
         IN  [UnpStore(st, st.unp_ptr_off, cur)
                EXCEPT !.cur = cur, !.prv = cur, !.unp_ptr_off = st.unp_ptr_off + 1]
    [] itm.shf_dir = "FwdPrt" ->
         [st EXCEPT !.dlt = and(rht(st.smd_pck, itm.shf_len), msk)]

\* The statements emitted for the Lst step.
UnpLst(st, itm, msk) ==
  CASE itm.shf_dir = "Zro" ->
         UnpStore(st, st.unp_ptr_off, add(st.prv, and(st.smd_pck, msk)))
    [] itm.shf_dir = "Bck" ->
         UnpStore(st, st.unp_ptr_off,
                  add(st.prv, or(st.dlt, and(lft(st.smd_pck, itm.shf_len), msk))))
    [] itm.shf_dir \in {"Fwd", "FwdPrt"} ->
         UnpStore(st, st.unp_ptr_off,
                  add(st.prv, and(rht(st.smd_pck, itm.shf_len), msk)))

\* The statements emitted for the Fst step.
UnpFst(st, fst, pck, msk) ==
  LET s1 == UnpLoad(st, pck, 0)
      cur == add(set1(fst), and(s1.smd_pck, msk))
  IN  [UnpStore(s1, 0, cur) EXCEPT !.cur = cur, !.prv = cur]

\* The statements emitted for one step of the schedule.
UnpStep(st, step, fst, pck, msk) ==
  CASE step.kind = "Fst" -> UnpFst(st, fst, pck, msk)
    [] step.kind = "Mdl" ->
         LET s1 == UnpMdl(st, step.itm, msk)
         IN  IF step.itm.lne_bit_sum = BIT_PER_LNE
             THEN [UnpLoad(s1, pck, s1.pck_ptr_off)
                     EXCEPT !.pck_ptr_off = s1.pck_ptr_off + 1]
             ELSE s1
    [] step.kind = "Lst" -> UnpLst(st, step.itm, msk)

\* The statements emitted for the steps lo .. hi of the schedule, in order:
\* those of the first half, then those of the second.  (unp_ptr_off starts
\* at 1 and only grows; reading it first has the steps evaluated in order.)
RECURSIVE UnpSteps(_, _, _, _, _, _, _)
UnpSteps(st, steps, lo, hi, fst, pck, msk) ==
  IF st.unp_ptr_off < 1 \/ lo > hi THEN st
  ELSE IF lo = hi THEN UnpStep(st, steps[lo], fst, pck, msk)
  ELSE UnpSteps(UnpSteps(st, steps, lo, (lo + hi) \div 2, fst, pck, msk),
                steps, ((lo + hi) \div 2) + 1, hi, fst, pck, msk)
\* An unpack arm for a width in 1..31: the mask, then the statements emitted
\* for all the steps.
UnpArm(steps, elm_bit_len, fst, pck, unp) ==
  UnpSteps(UnpVars(unp), steps, 1, Len(steps), fst, pck, set1(MskLit(elm_bit_len)))

\* Arm 0 as an empty arm, like arm 0 of pack: unp is left as it was.
UnpArm0Keep(unp) == UnpVars(unp)

\* Arm 0 of unpack: unp.fill(0).
UnpArm0(unp) ==
  [UnpVars(unp) EXCEPT !.unp = Tup([e \in 1 .. Len(unp) |-> U32(0)]),
                       !.uw = 0 .. (BYT_PER_ELM * Len(unp) - 1)]

\* Arm 32 of unpack: ptr::copy_nonoverlapping(pck, unp as *mut u8, pck.len()).
\* It copies pck.len() bytes, whatever the length of unp.
UnpArm32(pck, unp) ==
  LET old == BytesOf(unp)
      new == Tup([p \in 1 .. Len(old) |-> IF p <= Len(pck) THEN pck[p] ELSE old[p]])
  IN  [UnpVars(unp) EXCEPT
         !.unp = ElmsOf(new),
         !.uw = 0 .. (Len(pck) - 1),
         !.rd = 0 .. (Len(pck) - 1),
         !.ovf = IF Len(pck) > Len(old)
                 THEN SubSeq(pck, Len(old) + 1, Len(pck)) ELSE <<>>]

\* u32xB_unp(elm_bit_len, fst, pck, unp): the match on elm_bit_len.
u32_blk_unp(elm_per_blk, elm_bit_len, fst, pck, unp) ==
  IF elm_bit_len = 0 THEN [panic |-> <<>>, st |-> UnpArm0(unp)]
  ELSE IF elm_bit_len \in 1 .. 31 THEN
    [panic |-> <<>>,
     st |-> UnpArm(Schedule(elm_bit_len, elm_per_blk), elm_bit_len, fst, pck, unp)]
  ELSE IF elm_bit_len = 32 THEN [panic |-> <<>>, st |-> UnpArm32(pck, unp)]
  ELSE [panic |-> Unsupported(elm_bit_len), st |-> UnpVars(unp)]

\* ------------------------------------------------------------ width detector
\* u32xB_bit_len(blk): OR of the lane deltas of adjacent vectors, then the
\* number of significant bits of the accumulator.
\* acm after the iterations lo .. hi of `for n in 0..(smd_per_blk-1)`, from
\* acm = 0.  (OR is associative: the iterations are taken in two halves.)
RECURSIVE BitAcm(_, _, _)
BitAcm(blk, lo, hi) ==
  IF lo > hi THEN U32(0)
  ELSE IF lo = hi
  THEN horizontal_or(sub(LoadElms(blk, lo + 1), LoadElms(blk, lo)))
  ELSE bitor(BitAcm(blk, lo, (lo + hi) \div 2),
             BitAcm(blk, ((lo + hi) \div 2) + 1, hi))

\* The loop over n started at 1: the first pair of vectors is left out.
u32_blk_bit_from1(elm_per_blk, blk) ==
  BIT_PER_ELM - leading_zeros(BitAcm(blk, 1, (elm_per_blk \div ELM_PER_SMD) - 2))

u32_blk_bit(elm_per_blk, blk) ==
  BIT_PER_ELM - leading_zeros(BitAcm(blk, 0, (elm_per_blk \div ELM_PER_SMD) - 2))

\* --------------------------------------------------------------- size oracle
\* The byte length counted from the schedule, for a width in 1..31.
\* What a step adds to byt_len.
BytOfStep(step) ==
  CASE step.kind = "Fst" -> 0
    [] step.kind = "Mdl" ->
         IF step.itm.lne_bit_sum = BIT_PER_LNE THEN BYT_PER_SMD ELSE 0
    [] step.kind = "Lst" -> BYT_PER_SMD
\* byt_len after the steps lo .. hi.
RECURSIVE BytSum(_, _, _)
BytSum(steps, lo, hi) ==
  IF lo > hi THEN 0
  ELSE IF lo = hi THEN BytOfStep(steps[lo])
  ELSE BytSum(steps, lo, (lo + hi) \div 2) + BytSum(steps, ((lo + hi) \div 2) + 1, hi)
BytCount(steps) == BytSum(steps, 1, Len(steps))

\* The byte length as the bits of the block, without the padding of the
\* last vector.
u32_blk_byt_unpadded(elm_per_blk, elm_bit_len) ==
  IF elm_bit_len \in 0 .. 32
  THEN [panic |-> <<>>, len |-> (elm_bit_len * elm_per_blk) \div BIT_PER_BYT]
  ELSE [panic |-> Unsupported(elm_bit_len), len |-> 0]

\* u32xB_byt_len(elm_bit_len): the match on elm_bit_len.
u32_blk_byt(elm_per_blk, elm_bit_len) ==
  IF elm_bit_len = 0 THEN [panic |-> <<>>, len |-> 0]
  ELSE IF elm_bit_len \in 1 .. 31 THEN
    [panic |-> <<>>, len |-> BytCount(Schedule(elm_bit_len, elm_per_blk))]
  ELSE IF elm_bit_len = 32 THEN [panic |-> <<>>, len |-> BYT_PER_ELM * elm_per_blk]
  ELSE [panic |-> Unsupported(elm_bit_len), len |-> 0]

\* ----------------------------------------------------------------- generator
\* The generator with only its first validation (the minimum).
u32_blk_min_only(elm_per_blk) ==
  IF elm_per_blk < MIN_ELM_PER_BLK THEN
    [ diag |-> <<"parameter elm_per_blk is too small (min {})", MIN_ELM_PER_BLK>>,
      fns |-> {} ]
  ELSE
    [ diag |-> <<>>, fns |-> {"pck", "unp", "bit_len", "byt_len"} ]

\* u32_blk!(B): the diagnostic emitted (<<>> if none) and the functions of
\* the expansion (none after a diagnostic: TokenStream::new()).
u32_blk(elm_per_blk) ==
  IF elm_per_blk < MIN_ELM_PER_BLK THEN
    [ diag |-> <<"parameter elm_per_blk is too small (min {})", MIN_ELM_PER_BLK>>,
      fns |-> {} ]
  ELSE IF elm_per_blk % ELM_PER_SMD # 0 THEN
    [ diag |-> <<"parameter elm_per_blk is not a multiple of {}", ELM_PER_SMD>>,
      fns |-> {} ]
  ELSE
    [ diag |-> <<>>, fns |-> {"pck", "unp", "bit_len", "byt_len"} ]

\* -------------------------------------------------------------------- VARINT
\* vrn.rs.  An unsigned integer of 16 * n bits is the tuple of its n 16-bit
\* limbs, most significant first: a u32 is <<hi, lo>> as above, a usize (on
\* the 64-bit x86 target of the crate) has four limbs.
BYT_HDR_MSK == 128
BYT_BDY_MSK == 127
BIT_SHF_LEN == 7
\* Bits of a u8: the width of `shf`.
U8_BITS == 8
U32_BITS == 32
USIZE_BITS == 64

\* The integer 0 of the given width.
WZero(bits) == Tup([i \in 1 .. (bits \div 16) |-> 0])
\* v == 0 and v >= 0x80
WIsZero(v) == \A i \in 1 .. Len(v) : v[i] = 0
WGe128(v) == (\E i \in 1 .. (Len(v) - 1) : v[i] # 0) \/ v[Len(v)] >= BYT_HDR_MSK
\* v as u8
WAsU8(v) == v[Len(v)] % Pow2(U8_BITS)
\* v >> s, for s in 0..16
WShr(v, s) ==
  Tup([i \in 1 .. Len(v) |->
         (v[i] \div Pow2(s)) + (IF i > 1 THEN (v[i - 1] % Pow2(s)) * Pow2(16 - s) ELSE 0)])
\* The shift that keeps only the bits that stay within one 16-bit limb.
WShlLow(b, s, n) ==
  Tup([i \in 1 .. n |-> IF n - i = s \div 16 THEN (b * Pow2(s % 16)) % Half ELSE 0])
\* (b as T) << s for a byte b and s below the width of T (16 * n bits); the
\* bits shifted out are lost.
WShl(b, s, n) ==
  Tup([i \in 1 .. n |->
         IF n - i = s \div 16 THEN (b * Pow2(s % 16)) % Half
         ELSE IF n - i = (s \div 16) + 1 THEN (b * Pow2(s % 16)) \div Half
         ELSE 0])
\* a | b
WOr(a, b) == Tup([i \in 1 .. Len(a) |-> Or16(a[i], b[i])])

\* The panic of an index past the end of a slice.
IndexOob(len, index) == <<"index out of bounds: the len is", len, "but the index is", index>>
ShlOverflow == <<"attempt to shift left with overflow">>
AddOverflow == <<"attempt to add with overflow">>

\* `while v > 0 { v >>= BIT_SHF_LEN; len += 1; }`
RECURSIVE VrnLenLoop(_, _)
VrnLenLoop(v, len) ==
  IF ~WIsZero(v) THEN VrnLenLoop(WShr(v, BIT_SHF_LEN), len + 1) ELSE len
\* The function without its `if v == 0 { return 1; }`.
VrnBytLenNoZero(v) == VrnLenLoop(v, 0)
\* u32_byt_len(v) and usize_byt_len(v)
VrnBytLen(v) == IF WIsZero(v) THEN 1 ELSE VrnLenLoop(v, 0)
u32_byt_len(v) == VrnBytLen(v)
usize_byt_len(v) == VrnBytLen(v)

\* The loop that shifts by a whole byte.
RECURSIVE VrnPckLoopShr8(_, _, _)
VrnPckLoopShr8(v, pck, p) ==
  IF p >= Len(pck) THEN [panic |-> IndexOob(Len(pck), p), pck |-> pck, p |-> p]
  ELSE IF WGe128(v) THEN
    VrnPckLoopShr8(WShr(v, U8_BITS), [pck EXCEPT ![p + 1] = Or16(BYT_HDR_MSK, WAsU8(v))], p + 1)
  ELSE [panic |-> <<>>, pck |-> [pck EXCEPT ![p + 1] = WAsU8(v)], p |-> p + 1]
\* `while v >= 0x80 { pck[p] = BYT_HDR_MSK | (v as u8); v >>= BIT_SHF_LEN;
\* p += 1; } pck[p] = v as u8;` from the offset p: the buffer and the offset
\* after the last byte written.
RECURSIVE VrnPckLoop(_, _, _)
VrnPckLoop(v, pck, p) ==
  IF p >= Len(pck) THEN [panic |-> IndexOob(Len(pck), p), pck |-> pck, p |-> p]
  ELSE IF WGe128(v) THEN
    VrnPckLoop(WShr(v, BIT_SHF_LEN), [pck EXCEPT ![p + 1] = Or16(BYT_HDR_MSK, WAsU8(v))], p + 1)
  ELSE [panic |-> <<>>, pck |-> [pck EXCEPT ![p + 1] = WAsU8(v)], p |-> p + 1]
\* u32_pck(v, pck) and usize_pck(v, pck): the buffer and the value returned.
VrnPck(v, pck) ==
  [ panic |-> VrnPckLoop(v, pck, 0).panic,
    pck |-> VrnPckLoop(v, pck, 0).pck,
    ret |-> VrnPckLoop(v, pck, 0).p ]
u32_pck(v, pck) == VrnPck(v, pck)
usize_pck(v, pck) == VrnPck(v, pck)

\* One iteration of `for p in 0..pck.len()` of u32_unp / usize_unp on the
\* byte pck[p], for an integer of `bits` bits.  `chk`: the build checks
\* arithmetic overflow (debug-assertions builds panic; the others shift by
\* shf modulo the width, and add modulo 2^8).
VrnUnpBody(st, byte, bits, chk) ==
  IF chk /\ st.shf >= bits THEN [st EXCEPT !.panic = ShlOverflow]
  ELSE IF And16(byte, BYT_HDR_MSK) = 0 THEN
    [st EXCEPT !.val = WOr(@, WShl(And16(byte, BYT_BDY_MSK), st.shf % bits, bits \div 16)),
               !.len = @ + 1,
               !.brk = TRUE]
  ELSE IF chk /\ st.shf + BIT_SHF_LEN >= Pow2(U8_BITS) THEN
    [st EXCEPT !.val = WOr(@, WShl(And16(byte, BYT_BDY_MSK), st.shf % bits, bits \div 16)),
               !.len = @ + 1,
               !.panic = AddOverflow]
  ELSE
    [st EXCEPT !.val = WOr(@, WShl(And16(byte, BYT_BDY_MSK), st.shf % bits, bits \div 16)),
               !.len = @ + 1,
               !.shf = (@ + BIT_SHF_LEN) % Pow2(U8_BITS)]
\* The iterations lo .. hi (1-based) of the loop, until the break or a
\* panic: those of the first half, then those of the second.
RECURSIVE VrnUnpLoop(_, _, _, _, _, _)
VrnUnpLoop(st, pck, lo, hi, bits, chk) ==
  IF st.brk \/ st.panic # <<>> \/ lo > hi THEN st
  ELSE IF lo = hi THEN VrnUnpBody(st, pck[lo], bits, chk)
  ELSE VrnUnpLoop(VrnUnpLoop(st, pck, lo, (lo + hi) \div 2, bits, chk),
                  pck, ((lo + hi) \div 2) + 1, hi, bits, chk)
\* u32_unp(pck) (bits = 32) and usize_unp(pck) (bits = 64)
VrnUnp(pck, bits, chk) ==
  VrnUnpLoop([val |-> WZero(bits), len |-> 0, shf |-> 0, brk |-> FALSE, panic |-> <<>>],
             pck, 1, Len(pck), bits, chk)
u32_unp(pck, chk) == VrnUnp(pck, U32_BITS, chk)
usize_unp(pck, chk) == VrnUnp(pck, USIZE_BITS, chk)

\* u32s_byt_len(blk)
RECURSIVE U32sLenLoop(_, _, _)
U32sLenLoop(blk, n, len) ==
  IF n > Len(blk) THEN len
  ELSE IF WIsZero(blk[n]) THEN U32sLenLoop(blk, n + 1, len + 1)
  ELSE U32sLenLoop(blk, n + 1, VrnLenLoop(blk[n], len))
u32s_byt_len(blk) == U32sLenLoop(blk, 1, 0)

\* u32s_pck(src, dst): `for s in 0..src.len()`, from the element s (1-based)
\* and the offset d; the buffer and the offset after the last byte written.
RECURSIVE U32sPckLoop(_, _, _, _)
U32sPckLoop(src, s, dst, d) ==
  IF s > Len(src) THEN [panic |-> <<>>, pck |-> dst, p |-> d]
  ELSE IF VrnPckLoop(src[s], dst, d).panic # <<>> THEN VrnPckLoop(src[s], dst, d)
  ELSE U32sPckLoop(src, s + 1, VrnPckLoop(src[s], dst, d).pck, VrnPckLoop(src[s], dst, d).p)
\* The loop that writes every element at the offset 0.
U32sPckAt0(src, dst) ==
  [ panic |-> <<>>,
    pck |-> IF src = <<>> THEN dst ELSE VrnPckLoop(src[Len(src)], dst, 0).pck,
    p |-> u32s_byt_len(src) ]
u32s_pck(src, dst) == U32sPckLoop(src, 1, dst, 0)

\* One iteration of `for s in 0..src.len()` of u32s_unp on the byte src[s].
U32sUnpBody(st, byte, chk) ==
  IF chk /\ st.shf >= U32_BITS THEN [st EXCEPT !.panic = ShlOverflow]
  ELSE IF st.d >= Len(st.dst) THEN [st EXCEPT !.panic = IndexOob(Len(st.dst), st.d)]
  ELSE IF chk /\ st.shf + BIT_SHF_LEN >= Pow2(U8_BITS) THEN
    [st EXCEPT !.dst[st.d + 1] = WOr(@, WShl(And16(byte, BYT_BDY_MSK), st.shf % U32_BITS, 2)),
               !.panic = AddOverflow]
  ELSE IF And16(byte, BYT_HDR_MSK) = 0 THEN
    [st EXCEPT !.dst[st.d + 1] = WOr(@, WShl(And16(byte, BYT_BDY_MSK), st.shf % U32_BITS, 2)),
               !.shf = 0,
               !.d = @ + 1]
  ELSE
    [st EXCEPT !.dst[st.d + 1] = WOr(@, WShl(And16(byte, BYT_BDY_MSK), st.shf % U32_BITS, 2)),
               !.shf = (@ + BIT_SHF_LEN) % Pow2(U8_BITS)]
\* The iterations lo .. hi (1-based) of the loop, until a panic: those of the
\* first half, then those of the second.
RECURSIVE U32sUnpLoop(_, _, _, _, _)
U32sUnpLoop(st, src, lo, hi, chk) ==
  IF st.panic # <<>> \/ lo > hi THEN st
  ELSE IF lo = hi THEN U32sUnpBody(st, src[lo], chk)
  ELSE U32sUnpLoop(U32sUnpLoop(st, src, lo, (lo + hi) \div 2, chk),
                   src, ((lo + hi) \div 2) + 1, hi, chk)
u32s_unp(src, dst, chk) ==
  U32sUnpLoop([dst |-> dst, shf |-> 0, d |-> 0, panic |-> <<>>], src, 1, Len(src), chk)

\* -------------------------------------------------------------------- inputs
\* Largest block size handed to the generator.
MaxElmPerBlk == 256
\* Largest block size whose pck and unp are called.
MaxPckElm == 32
\* Extra bytes of a pck buffer that is longer than the size oracle asks for.
Slack == 4

BlkSizes == 0 .. MaxElmPerBlk
\* The widths the arms match.
Widths == 0 .. BIT_PER_ELM
\* Widths no arm matches (any u8 above 32).
BadWidths == {33, 255}
\* What a byte past the end of unp may hold.
PastBytes == {0, 255}
\* Prior contents of every byte of the pck buffer handed to pack.
PckPrior == Pow2(BIT_PER_BYT) - 1
\* Prior contents of an element of the unp buffer handed to unpack.
UnpPrior == U32_MAX
\* A first element near 2^32, so that sums of deltas wrap.
HiBase == wrapping_sub(U32_MAX, U32(2))

\* n * x mod 2^32, for a u32 x and n < 2^15.
Times(x, n) == <<(x[1] * n + ((x[2] * n) \div Half)) % Half, (x[2] * n) % Half>>
\* The block of B elements whose first vector is `row0` and whose vector
\* n + 1 is vector n plus `dlt` lane-wise (mod 2^32).
BlkOf(B, row0, dlt) ==
  Tup([e \in 1 .. B |->
         wrapping_add(row0[((e - 1) % ELM_PER_SMD) + 1],
                      Times(dlt[((e - 1) % ELM_PER_SMD) + 1], (e - 1) \div ELM_PER_SMD))])

\* Lane deltas of k significant bits: all ones in every lane ...
OnesDlt(k) == set1(LowBits(k))
\* ... or, lane by lane, all ones, only the top bit, zero, and one.
MixDlt(k) ==
  Tup([l \in Lanes |->
         CASE l % 4 = 1 -> LowBits(k)
           [] l % 4 = 2 -> OneBit(k - 1)
           [] l % 4 = 3 -> U32(0)
           [] OTHER -> U32(1)])
\* A first vector with a spread inside it: lane l holds base + (l - 1).
SpreadRow(base) == Tup([l \in Lanes |-> wrapping_add(base, U32(l - 1))])

\* j * 0x9E3779B9 mod 2^32, for j < 2^15: a different bit pattern for every j.
Scatter(j) ==
  LET lo == j * 31161
  IN  <<(j * 40503 + (lo \div Half)) % Half, lo % Half>>
\* A delta of at most k significant bits for lane l between the vectors n
\* and n + 1, different from lane to lane and from row to row; lane 1 has
\* exactly k.
VarDlt(k, n, l) ==
  bitor(bitand(LowBits(k), Scatter(ELM_PER_SMD * n + l)),
        IF l = 1 THEN OneBit(k - 1) ELSE U32(0))
\* The sum (mod 2^32) of the deltas of lane l between the vectors lo and hi + 1.
RECURSIVE VarSum(_, _, _, _)
VarSum(k, l, lo, hi) ==
  IF lo > hi THEN U32(0)
  ELSE IF lo = hi THEN VarDlt(k, lo, l)
  ELSE wrapping_add(VarSum(k, l, lo, (lo + hi) \div 2),
                    VarSum(k, l, ((lo + hi) \div 2) + 1, hi))
\* The block of B elements whose first vector is `row0` and whose vector
\* n + 1 is vector n plus the deltas VarDlt(k, n, _) (mod 2^32).
VarBlk(B, row0, k) ==
  Tup([e \in 1 .. B |->
         wrapping_add(row0[((e - 1) % ELM_PER_SMD) + 1],
                      VarSum(k, ((e - 1) % ELM_PER_SMD) + 1, 0, ((e - 1) \div ELM_PER_SMD) - 1))])

\* The strictly sorted block of B elements 0, 1, .., 7, then g, g + 1, ..:
\* every lane steps by g from the first vector to the second and by 8 after.
SortedBlk(B, g) ==
  Tup([e \in 1 .. B |->
         IF e <= ELM_PER_SMD THEN U32(e - 1)
         ELSE wrapping_add(g, U32(e - 1 - ELM_PER_SMD))])

\* The blocks handed to the width detector and the packer: constant ones,
\* ones with varying deltas of every width, sorted ones with a largest
\* delta of 2^31 - 1 and of 2^31 and, up to MaxPckElm elements, ones with
\* the same deltas in every row.
Blocks(B) ==
  { BlkOf(B, set1(U32(0)), set1(U32(0))),
    BlkOf(B, set1(HiBase), set1(U32(0))),
    BlkOf(B, SpreadRow(HiBase), set1(U32(0))) }
  \cup { VarBlk(B, SpreadRow(HiBase), k) : k \in 1 .. BIT_PER_ELM }
  \cup { SortedBlk(B, LowBits(BIT_PER_ELM - 1)), SortedBlk(B, OneBit(BIT_PER_ELM - 1)) }
  \cup { BlkOf(B, set1(HiBase), OnesDlt(k)) : k \in { j \in 1 .. BIT_PER_ELM : B <= MaxPckElm } }
  \cup { BlkOf(B, SpreadRow(HiBase), MixDlt(k)) : k \in { j \in 1 .. BIT_PER_ELM : B <= MaxPckElm } }

\* The widths a block whose detected width is b is packed at: every width,
\* or those next to b and the two ends.
PckWidths(b, every) ==
  IF every THEN Widths ELSE {0, b - 1, b, b + 1, BIT_PER_ELM} \cap Widths
\* The references passed with a block: its first element, or one less.
Refs(b) == {b[1], wrapping_sub(b[1], U32(1))}

\* Largest number of continuation bytes in a byte slice handed to an
\* unpacker: more than either integer holds, and than a u8 shift count does.
MaxRawLen == 40
\* Largest number of elements of a sequence handed to the sequence codec.
MaxSeqLen == 3
\* Largest number of calls of next made after it has returned None.
MaxNones == 2
\* The block sizes the generator accepts.
SupportedSizes == { b \in BlkSizes : u32_blk(b).diag = <<>> }
\* The widths an arm iterates the schedule for.
ItrWidths == 1 .. (BIT_PER_ELM - 1)
\* The prior contents of the second out buffer of a pack arm.
PckPriorAlt == 0
\* The block of B elements that follows the reference r with the lane
\* deltas `dlt` in every row, the first included.
ArmBlk(B, r, dlt) == BlkOf(B, add(set1(r), dlt), dlt)
\* The lane deltas of the blocks a pack arm of width w is run on: w
\* significant bits in every lane, or a mix of w bits and fewer.
ArmDlts(w) == {OnesDlt(w), MixDlt(w)}
\* An out buffer of n bytes, each holding c.
ArmBuf(n, c) == Tup([p \in 1 .. n |-> c])
\* The widths of the integers of the codec: u32 and usize.
VrnBits == {U32_BITS, USIZE_BITS}
\* The integer with the k low bits set, and with only bit k set.
WLowBits(k, bits) ==
  Tup([i \in 1 .. (bits \div 16) |->
         IF k >= bits - 16 * (i - 1) THEN Half - 1
         ELSE IF k <= bits - 16 * i THEN 0
         ELSE Pow2(k - (bits - 16 * i)) - 1])
WOneBit(k, bits) ==
  Tup([i \in 1 .. (bits \div 16) |->
         IF k \div 16 = (bits \div 16) - i THEN Pow2(k % 16) ELSE 0])
\* A different bit pattern for every j, cut to k significant bits.
WScatter(j, k, bits) ==
  Tup([i \in 1 .. (bits \div 16) |->
         Or16(And16(WLowBits(k, bits)[i], Scatter(j + i)[2]), WOneBit(k - 1, bits)[i])])
\* The values handed to the codec: 0, and around every power of two
\* 2^k - 1, 2^k, 2^k + 1, a pattern of k bits, and the largest value.
VrnValues(bits) ==
  { WZero(bits), WLowBits(bits, bits) }
  \cup { WLowBits(k, bits) : k \in 1 .. bits }
  \cup { WOneBit(k, bits) : k \in 0 .. (bits - 1) }
  \cup { WOr(WOneBit(k, bits), WOneBit(0, bits)) : k \in 1 .. (bits - 1) }
  \cup { WScatter(k, k, bits) : k \in 1 .. bits }
\* Extra bytes of the destination handed to a packer, over the length the
\* size function gives: one short, exact, longer.
VrnExtras == {-1, 0, 3}
\* Prior contents of every byte of a destination.
VrnPriors == {0, Pow2(U8_BITS) - 1}
\* The u32 elements of the sequences: 0, and values of 1 to 5 bytes.
SeqVals ==
  { U32(0), U32(127), U32(128), U32(16384), WLowBits(21, U32_BITS), WOneBit(28, U32_BITS),
    U32_MAX }
RECURSIVE SeqsOfLen(_)
SeqsOfLen(n) ==
  IF n = 0 THEN { <<>> }
  ELSE { Append(q, v) : q \in SeqsOfLen(n - 1), v \in SeqVals }
\* The sequences handed to the sequence codec.
Seqs ==
  UNION { SeqsOfLen(n) : n \in 0 .. MaxSeqLen }
  \cup { <<U32(0), U32(1), U32(128), U32(16384), U32(2097152)>> }
\* A byte slice of n continuation bytes c, then the bytes of `tail`.
RawOf(n, c, tail) == Tup([p \in 1 .. n |-> c]) \o tail
\* The byte slices handed to an unpacker as they are: continuation bytes
\* only, or followed by a byte with the high bit clear, alone or with two
\* more bytes after it.
RawSlices ==
  { RawOf(n, c, tail) :
      n \in 0 .. MaxRawLen,
      c \in {BYT_HDR_MSK, Pow2(U8_BITS) - 1},
      tail \in { <<>>, <<0>>, <<BYT_BDY_MSK>>, <<1, BYT_HDR_MSK, 0>> } }

\* --------------------------------------------------------------------- state
VARIABLES
  pc,           \* what has been called so far
  call,         \* the function called last
  elm_per_blk,  \* the block size given to u32_blk!
  diag,         \* the generator's diagnostic, <<>> if none
  fns,          \* the functions the expansion defines
  blk,          \* the unpacked block
  bit,          \* result of u32xB_bit_len(blk)
  byt,          \* result of u32xB_byt_len(elm_bit_len)
  elm_bit_len,  \* the width passed to byt_len, pck and unp
  fst,          \* the reference passed to pck
  pck0,         \* the pck buffer before pck is called
  pck,          \* the pck buffer after pck
  wr,           \* byte offsets of pck that pck stored to
  unp_fst,      \* the reference passed to unp
  unp,          \* the unp buffer after unp
  uw,           \* byte offsets, from the start of unp, that unp stored to
  rd,           \* byte offsets of pck that unp loaded
  ovf,          \* bytes unp stored past the end of the unp buffer
  panic,        \* the panic message of the last call, <<>> if none
  vpc,          \* VARINT: what has been called so far
  vfn,          \* VARINT: the function called last
  vbits,        \* VARINT: the width of the integer type, 32 or 64
  vchk,         \* VARINT: whether the build checks arithmetic overflow
  vin,          \* VARINT: the value or the sequence given to byt_len and pck
  vlen,         \* VARINT: result of byt_len
  vbuf0,        \* VARINT: the destination before pck is called
  vbuf,         \* VARINT: the destination after pck
  vret,         \* VARINT: bytes written by pck (the value u32_pck returns)
  vsrc,         \* VARINT: the bytes given to unp
  vout,         \* VARINT: result of unp
  vpanic,       \* VARINT: the panic message of the last call, <<>> if none
  itr,          \* the schedule iterator being stepped
  arm           \* the pack arm being expanded, one step of its schedule at a time

blkVars == <<pc, call, elm_per_blk, diag, fns, blk, bit, byt, elm_bit_len, fst, pck0,
             pck, wr, unp_fst, unp, uw, rd, ovf, panic>>
vrnVars == <<vpc, vfn, vbits, vchk, vin, vlen, vbuf0, vbuf, vret, vsrc, vout, vpanic>>
vars == <<blkVars, vrnVars, itr, arm>>

\* The iterator variable before an iterator is made.
\* pc: "none", "iter" once made, "done" once next has returned None;
\* w, B: the arguments of blk_itr; self: the BlkItr; old: the BlkItr before
\* the last call of next; kind: what that call yielded (Fst, Mdl, Lst or
\* None); n: steps yielded; fsts, lsts: how many were Fst, Lst; after_lst:
\* steps yielded after a Lst; nones: calls that returned None.
ItrIdle ==
  [ pc |-> "none", w |-> 0, B |-> 0, self |-> blk_itr(0, 0), old |-> blk_itr(0, 0),
    kind |-> "", n |-> 0, fsts |-> 0, lsts |-> 0, after_lst |-> 0, nones |-> 0 ]

\* The pack arm before its expansion starts.
\* pc: "none", "iter" while the for loop runs, "done" once next has returned
\* None; w, B: the width of the arm and the block size; fst, unp: the
\* reference and the block the arm is run on; self: the BlkItr of the loop;
\* st, st2: the variables of the arm run on two out buffers with different
\* prior contents; kind, itm: what the last call of next yielded; n: steps
\* expanded; lds0, sts0: the loads and stores emitted before the last step.
ArmIdle ==
  [ pc |-> "none", w |-> 0, B |-> 0, fst |-> U32(0), unp |-> <<>>,
    self |-> blk_itr(0, 0), st |-> PckVars(<<>>), st2 |-> PckVars(<<>>),
    kind |-> "", itm |-> blk_itr(0, 0).prv, n |-> 0, lds0 |-> 0, sts0 |-> 0 ]

Init ==
  /\ pc = "gen"
  /\ call = ""
  /\ elm_per_blk = 0
  /\ diag = <<>>
  /\ fns = {}
  /\ blk = <<>>
  /\ bit = 0
  /\ byt = 0
  /\ elm_bit_len = 0
  /\ fst = U32(0)
  /\ pck0 = <<>>
  /\ pck = <<>>
  /\ wr = {}
  /\ unp_fst = U32(0)
  /\ unp = <<>>
  /\ uw = {}
  /\ rd = {}
  /\ ovf = <<>>
  /\ panic = <<>>
  /\ vpc = "none"
  /\ vfn = ""
  /\ vbits = 0
  /\ vchk = FALSE
  /\ vin = <<>>
  /\ vlen = 0
  /\ vbuf0 = <<>>
  /\ vbuf = <<>>
  /\ vret = 0
  /\ vsrc = <<>>
  /\ vout = <<>>
  /\ vpanic = <<>>
  /\ itr = ItrIdle
  /\ arm = ArmIdle

\* u32_blk!(B) is expanded.
Gen ==
  /\ pc = "gen"
  /\ \E b \in BlkSizes :
       LET g == u32_blk(b)
       IN  /\ elm_per_blk' = b
           /\ diag' = g.diag
           /\ fns' = g.fns
           /\ pc' = IF g.diag = <<>> THEN "idle" ELSE "rejected"
  /\ call' = "u32_blk"
  /\ UNCHANGED <<blk, bit, byt, elm_bit_len, fst, pck0, pck, wr, unp_fst, unp, uw,
                 rd, ovf, panic>>
  /\ UNCHANGED <<vrnVars, itr, arm>>

\* u32xB_byt_len(w) is called.
BytLen ==
  /\ pc = "idle"
  /\ "byt_len" \in fns
  /\ \E w \in Widths \cup BadWidths :
       LET r == u32_blk_byt(elm_per_blk, w)
       IN  /\ elm_bit_len' = w
           /\ byt' = r.len
           /\ panic' = r.panic
           /\ pc' = IF r.panic = <<>> THEN "sized" ELSE "panicked"
  /\ call' = "byt_len"
  /\ UNCHANGED <<elm_per_blk, diag, fns, blk, bit, fst, pck0, pck, wr, unp_fst, unp,
                 uw, rd, ovf>>
  /\ UNCHANGED <<vrnVars, itr, arm>>

\* u32xB_bit_len(blk) is called on a block of B elements, for B <= max and,
\* if `largest`, for the largest block size generated.
BitLen(max, largest) ==
  /\ pc = "idle"
  /\ "bit_len" \in fns
  /\ \/ elm_per_blk <= max
     \/ largest /\ elm_per_blk > MaxElmPerBlk - ELM_PER_SMD
  /\ \E b \in Blocks(elm_per_blk) :
       /\ blk' = b
       /\ bit' = u32_blk_bit(elm_per_blk, b)
  /\ pc' = "measured"
  /\ call' = "bit_len"
  /\ UNCHANGED <<elm_per_blk, diag, fns, byt, elm_bit_len, fst, pck0, pck, wr,
                 unp_fst, unp, uw, rd, ovf, panic>>
  /\ UNCHANGED <<vrnVars, itr, arm>>

\* u32xB_pck(w, r, blk, buf) is called with a buffer of at least byt_len(w)
\* bytes (of any length for a width that byt_len rejects): w is one of
\* PckWidths(bit, every) or a bad width, and the buffer has e extra bytes, e
\* in Extras.
Pck(every, Extras) ==
  /\ pc = "measured"
  /\ "pck" \in fns
  /\ \E w \in PckWidths(bit, every) \cup BadWidths, r \in Refs(blk), extra \in Extras :
     \E past \in IF w = BIT_PER_ELM /\ extra > 0 THEN PastBytes ELSE {0} :
       \E buf \in {Tup([p \in 1 .. (u32_blk_byt(elm_per_blk, w).len + extra) |-> PckPrior])} :
       \E res \in {u32_blk_pck(elm_per_blk, w, r, blk, buf, past)} :
           /\ elm_bit_len' = w
           /\ fst' = r
           /\ pck0' = buf
           /\ pck' = res.st.pck
           /\ wr' = res.st.wr
           /\ panic' = res.panic
           /\ pc' = IF res.panic = <<>> THEN "packed" ELSE "panicked"
  /\ call' = "pck"
  /\ UNCHANGED <<elm_per_blk, diag, fns, blk, bit, byt, unp_fst, unp, uw, rd, ovf>>
  /\ UNCHANGED <<vrnVars, itr, arm>>

\* u32xB_unp(w, r, pck, buf) is called on the packed bytes with a buffer of
\* B elements; w is the width packed at, with either reference, or a bad
\* width.
Unp ==
  /\ pc = "packed"
  /\ "unp" \in fns
  /\ \E w \in {elm_bit_len} \cup BadWidths :
     \E r \in IF w \in Widths THEN Refs(blk) ELSE {fst} :
       \E res \in {u32_blk_unp(elm_per_blk, w, r, pck, Tup([e \in 1 .. elm_per_blk |-> UnpPrior]))} :
           /\ elm_bit_len' = w
           /\ unp_fst' = r
           /\ unp' = res.st.unp
           /\ uw' = res.st.uw
           /\ rd' = res.st.rd
           /\ ovf' = res.st.ovf
           /\ panic' = res.panic
           /\ pc' = IF res.panic = <<>> THEN "unpacked" ELSE "panicked"
  /\ call' = "unp"
  /\ UNCHANGED <<elm_per_blk, diag, fns, blk, bit, byt, fst, pck0, pck, wr>>
  /\ UNCHANGED <<vrnVars, itr, arm>>

\* Blocks of every size up to MaxPckElm and of the largest size, packed at
\* the widths next to the detected one, into buffers with and without slack.
Next == Gen \/ BytLen \/ BitLen(MaxPckElm, TRUE) \/ Pck(FALSE, {0, Slack}) \/ Unp

Spec == Init /\ [][Next]_vars

\* Blocks of the smallest size, packed at every width into exact buffers.
NextWidths == Gen \/ BytLen \/ BitLen(MIN_ELM_PER_BLK, FALSE) \/ Pck(TRUE, {0}) \/ Unp

SpecWidths == Init /\ [][NextWidths]_vars

\* u32_byt_len(v) or usize_byt_len(v) is called.
CallLen ==
  /\ vpc = "none"
  /\ \E bits \in VrnBits :
     \E v \in VrnValues(bits) :
       /\ vbits' = bits
       /\ vin' = v
       /\ vlen' = IF bits = U32_BITS THEN u32_byt_len(v) ELSE usize_byt_len(v)
  /\ vpc' = "sized"
  /\ vfn' = "byt_len"
  /\ UNCHANGED <<vchk, vbuf0, vbuf, vret, vsrc, vout, vpanic>>
  /\ UNCHANGED <<blkVars, itr, arm>>

\* u32_pck(v, pck) or usize_pck(v, pck) is called with a destination of
\* byt_len(v) + extra bytes.
CallPck ==
  /\ vpc = "sized"
  /\ \E extra \in VrnExtras, prior \in VrnPriors :
     \E buf \in {Tup([p \in 1 .. (vlen + extra) |-> prior])} :
     \E res \in {IF vbits = U32_BITS THEN u32_pck(vin, buf) ELSE usize_pck(vin, buf)} :
       /\ vbuf0' = buf
       /\ vbuf' = res.pck
       /\ vret' = res.ret
       /\ vpanic' = res.panic
       /\ vpc' = IF res.panic = <<>> THEN "packed" ELSE "panicked"
  /\ vfn' = "pck"
  /\ UNCHANGED <<vbits, vchk, vin, vlen, vsrc, vout>>
  /\ UNCHANGED <<blkVars, itr, arm>>

\* u32_unp(pck) or usize_unp(pck) is called on the destination of pck, whole
\* or cut to the bytes written, in a build with or without overflow checks.
CallUnp ==
  /\ vpc = "packed"
  /\ \E chk \in BOOLEAN, src \in {vbuf, SubSeq(vbuf, 1, vret)} :
     \E res \in {IF vbits = U32_BITS THEN u32_unp(src, chk) ELSE usize_unp(src, chk)} :
       /\ vchk' = chk
       /\ vsrc' = src
       /\ vout' = [val |-> res.val, len |-> res.len]
       /\ vpanic' = res.panic
       /\ vpc' = IF res.panic = <<>> THEN "unpacked" ELSE "panicked"
  /\ vfn' = "unp"
  /\ UNCHANGED <<vbits, vin, vlen, vbuf0, vbuf, vret>>
  /\ UNCHANGED <<blkVars, itr, arm>>

\* u32_unp(pck) or usize_unp(pck) is called on a byte slice that no packer
\* wrote.
CallUnpRaw ==
  /\ vpc = "none"
  /\ \E bits \in VrnBits, chk \in BOOLEAN, src \in RawSlices :
     \E res \in {IF bits = U32_BITS THEN u32_unp(src, chk) ELSE usize_unp(src, chk)} :
       /\ vbits' = bits
       /\ vchk' = chk
       /\ vsrc' = src
       /\ vout' = [val |-> res.val, len |-> res.len]
       /\ vpanic' = res.panic
       /\ vpc' = IF res.panic = <<>> THEN "raw" ELSE "panicked"
  /\ vfn' = "unp"
  /\ UNCHANGED <<vin, vlen, vbuf0, vbuf, vret>>
  /\ UNCHANGED <<blkVars, itr, arm>>

\* u32s_byt_len(src) is called.
CallSeqLen ==
  /\ vpc = "none"
  /\ \E src \in Seqs :
       /\ vin' = src
       /\ vlen' = u32s_byt_len(src)
  /\ vbits' = U32_BITS
  /\ vpc' = "seq_sized"
  /\ vfn' = "u32s_byt_len"
  /\ UNCHANGED <<vchk, vbuf0, vbuf, vret, vsrc, vout, vpanic>>
  /\ UNCHANGED <<blkVars, itr, arm>>

\* u32s_pck(src, dst) is called with a destination of u32s_byt_len(src) +
\* extra bytes.
CallSeqPck ==
  /\ vpc = "seq_sized"
  /\ \E extra \in VrnExtras, prior \in VrnPriors :
     /\ vlen + extra >= 0
     /\ \E buf \in {Tup([p \in 1 .. (vlen + extra) |-> prior])} :
        \E res \in {u32s_pck(vin, buf)} :
          /\ vbuf0' = buf
          /\ vbuf' = res.pck
          /\ vret' = res.p
          /\ vpanic' = res.panic
          /\ vpc' = IF res.panic = <<>> THEN "seq_packed" ELSE "panicked"
  /\ vfn' = "u32s_pck"
  /\ UNCHANGED <<vbits, vchk, vin, vlen, vsrc, vout>>
  /\ UNCHANGED <<blkVars, itr, arm>>

\* u32s_unp(src, dst) is called on the destination of u32s_pck, whole or cut
\* to the bytes written, with a zeroed dst of as many elements as were packed.
CallSeqUnp ==
  /\ vpc = "seq_packed"
  /\ \E chk \in BOOLEAN, src \in {vbuf, SubSeq(vbuf, 1, vret)} :
     \E res \in {u32s_unp(src, Tup([e \in 1 .. Len(vin) |-> U32(0)]), chk)} :
       /\ vchk' = chk
       /\ vsrc' = src
       /\ vout' = res.dst
       /\ vpanic' = res.panic
       /\ vpc' = IF res.panic = <<>> THEN "seq_unpacked" ELSE "panicked"
  /\ vfn' = "u32s_unp"
  /\ UNCHANGED <<vbits, vin, vlen, vbuf0, vbuf, vret>>
  /\ UNCHANGED <<blkVars, itr, arm>>

\* blk_itr(w, B) is called, as the arms of the generated functions do.
ItrNew ==
  /\ itr.pc = "none"
  /\ \E w \in ItrWidths, B \in SupportedSizes :
       itr' = [ItrIdle EXCEPT !.pc = "iter", !.w = w, !.B = B,
                              !.self = blk_itr(w, B), !.old = blk_itr(w, B)]
  /\ UNCHANGED <<blkVars, vrnVars, arm>>

\* BlkItr::next is called, as `for cur in blk_itr(..)` does until it
\* returns None, and up to MaxNones times in all after that.
CallNext ==
  /\ itr.pc \in {"iter", "done"}
  /\ itr.nones < MaxNones
  /\ \E res \in {BlkItrNext(itr.self)} :
       itr' = IF res.some
              THEN [itr EXCEPT !.self = res.self,
                               !.old = itr.self,
                               !.kind = res.kind,
                               !.n = @ + 1,
                               !.fsts = @ + (IF res.kind = "Fst" THEN 1 ELSE 0),
                               !.lsts = @ + (IF res.kind = "Lst" THEN 1 ELSE 0),
                               !.after_lst = @ + (IF itr.lsts > 0 THEN 1 ELSE 0)]
              ELSE [itr EXCEPT !.pc = "done", !.old = itr.self, !.kind = "None",
                               !.nones = @ + 1]
  /\ UNCHANGED <<blkVars, vrnVars, arm>>

\* The schedule iterator, stepped one call at a time.
NextItr == ItrNew \/ CallNext

\* The expansion of the pack arm of a width w in 1..31 starts: the offsets
\* are set and the iterator is made.  The arm is run, as it is expanded, on
\* a block representable at w and on two out buffers of byt_len(w) + Slack
\* bytes with different prior contents.
ArmNew ==
  /\ arm.pc = "none"
  /\ \E w \in ItrWidths, B \in SupportedSizes :
     \E dlt \in ArmDlts(w), n \in {u32_blk_byt(B, w).len + Slack} :
       arm' = [ArmIdle EXCEPT !.pc = "iter", !.w = w, !.B = B, !.fst = HiBase,
                              !.unp = ArmBlk(B, HiBase, dlt),
                              !.self = blk_itr(w, B),
                              !.st = PckVars(ArmBuf(n, PckPrior)),
                              !.st2 = PckVars(ArmBuf(n, PckPriorAlt))]
  /\ UNCHANGED <<blkVars, vrnVars, itr>>

\* One turn of `for cur in blk_itr(..)` in u32_blk_pck: next is called and
\* the statements of the step it yields are emitted; the loop ends when next
\* returns None.
ArmStep ==
  /\ arm.pc = "iter"
  /\ \E res \in {BlkItrNext(arm.self)} :
       arm' = IF res.some
              THEN [arm EXCEPT
                      !.self = res.self, !.kind = res.kind, !.itm = res.itm,
                      !.n = @ + 1,
                      !.lds0 = Len(arm.st.lds), !.sts0 = Len(arm.st.sts),
                      !.st = PckStep(arm.st, [kind |-> res.kind, itm |-> res.itm],
                                     arm.fst, arm.unp),
                      !.st2 = PckStep(arm.st2, [kind |-> res.kind, itm |-> res.itm],
                                      arm.fst, arm.unp)]
              ELSE [arm EXCEPT !.pc = "done", !.kind = "None",
                               !.lds0 = Len(arm.st.lds), !.sts0 = Len(arm.st.sts)]
  /\ UNCHANGED <<blkVars, vrnVars, itr>>

NextArm == ArmNew \/ ArmStep
\* A pack arm expanded and run step by step, for every width and block size.
SpecArm == Init /\ [][NextArm]_vars

SpecItr == Init /\ [][NextItr]_vars
\* The `for` loops call next until it returns None.
SpecItrLive == Init /\ [][NextItr]_vars /\ WF_vars(CallNext)

\* The calls of the VARINT codec.
NextVrn ==
  CallLen \/ CallPck \/ CallUnp \/ CallUnpRaw \/ CallSeqLen \/ CallSeqPck \/ CallSeqUnp

SpecVrn == Init /\ [][NextVrn]_vars

\* ---------------------------------------------------------------- properties
\* x < 2^w, for a u32 x and w in 0..32.
Below2(x, w) ==
  IF w >= BIT_PER_ELM THEN TRUE
  ELSE IF w >= 16 THEN x[1] < Pow2(w - 16)
  ELSE x[1] = 0 /\ x[2] < Pow2(w)

\* Every lane delta (mod 2^32) between consecutive rows of [broadcast(r), U]
\* is below 2^w.
Representable(w, r, U) ==
  \A e \in 1 .. Len(U) :
    Below2(wrapping_sub(U[e], IF e <= ELM_PER_SMD THEN r ELSE U[e - ELM_PER_SMD]), w)

\* Every lane delta (mod 2^32) between adjacent rows of U is below 2^w.
InterRowFit(U, w) ==
  \A e \in (ELM_PER_SMD + 1) .. Len(U) :
    Below2(wrapping_sub(U[e], U[e - ELM_PER_SMD]), w)

\* The smallest w for which the deltas between adjacent rows of U fit.
DeltaWidth(U) ==
  CHOOSE w \in Widths : InterRowFit(U, w) /\ \A v \in 0 .. (w - 1) : ~InterRowFit(U, v)

\* Every lane of the first row of U is less than 2^w above U[0].
FirstRowFits(U, w) == \A l \in Lanes : Below2(wrapping_sub(U[l], U[1]), w)

\* Every element of U equals r.
AllEqual(U, r) == \A e \in 1 .. Len(U) : U[e] = r

\* The bytes are the little-endian layout of the elements of U, one after
\* the other.
IsLEImage(bytes, U) ==
  /\ Len(bytes) = BYT_PER_ELM * Len(U)
  /\ \A e \in 1 .. Len(U) :
       LET o == BYT_PER_ELM * (e - 1)
       IN  /\ bytes[o + 1] + 256 * bytes[o + 2] = U[e][2]
           /\ bytes[o + 3] + 256 * bytes[o + 4] = U[e][1]

\* The result of the size oracle for the width and block size of the state.
BytLenNow == u32_blk_byt(elm_per_blk, elm_bit_len).len

\* C1: for a width w in 1..31, a reference r and a block U whose lane deltas
\* between consecutive rows of [broadcast(r), U] are all below 2^w, unpacking
\* at (w, r) what pack wrote at (w, r) reproduces U exactly.
RoundTrip ==
  (pc = "unpacked" /\ elm_bit_len \in 1 .. 31 /\ unp_fst = fst
     /\ Representable(elm_bit_len, fst, blk))
  => unp = blk

\* C1, a case: a block of 32 elements with 31-bit deltas, unpacked at width
\* 31 with a reference below its first element.
RoundTripReached ==
  /\ pc = "unpacked" /\ elm_bit_len = 31 /\ elm_per_blk = 32
  /\ unp_fst = fst /\ fst # blk[1] /\ bit = 31
  /\ Representable(elm_bit_len, fst, blk)
  /\ unp = blk

\* C2: for every w in 0..32 and every out buffer of at least byt_len(w)
\* bytes, pack stores to exactly the bytes 0 .. byt_len(w) - 1 of out and
\* leaves every byte at or beyond byt_len(w) as it was.
PckWritesBytLen ==
  pc = "packed"
  => /\ wr = 0 .. (BytLenNow - 1)
     /\ \A p \in (BytLenNow + 1) .. Len(pck) : pck[p] = pck0[p]

\* C2, the part that holds: the same, for w below 32 or an out buffer of
\* exactly byt_len(w) bytes.
PckWritesBytLenBelow32 ==
  (pc = "packed" /\ (elm_bit_len < BIT_PER_ELM \/ Len(pck0) = BytLenNow))
  => /\ wr = 0 .. (BytLenNow - 1)
     /\ \A p \in (BytLenNow + 1) .. Len(pck) : pck[p] = pck0[p]

\* C3: for every w in 0..32 and every pck buffer of at least byt_len(w)
\* bytes, unpack loads exactly the bytes 0 .. byt_len(w) - 1 of pck, stores
\* to exactly the B elements of unp, and stores nothing past element B - 1.
UnpReadsBytLen ==
  pc = "unpacked"
  => /\ rd = 0 .. (BytLenNow - 1)
     /\ uw = 0 .. (BYT_PER_ELM * elm_per_blk - 1)
     /\ ovf = <<>>

\* C3, the part that holds: the same, for w in 1..31, or w = 32 with a pck
\* buffer of exactly byt_len(w) bytes; at w = 0 nothing is loaded.
UnpReadsBytLenBelow32 ==
  (pc = "unpacked" /\ (elm_bit_len < BIT_PER_ELM \/ Len(pck) = BytLenNow))
  => /\ rd = 0 .. (BytLenNow - 1)
     /\ uw = 0 .. (BYT_PER_ELM * elm_per_blk - 1)
     /\ ovf = <<>>

\* C4: byt_len(w) is 0 for w = 0, 4 * B for w = 32, and for w in 1..31 the
\* count over the schedule, which is 32 * ceil(w * B / 256).
BytLenFormula ==
  pc = "sized"
  => byt = (IF elm_bit_len = 0 THEN 0
            ELSE IF elm_bit_len = 32 THEN 4 * elm_per_blk
            ELSE 32 * ((elm_bit_len * elm_per_blk + 255) \div 256))

\* C4, a case: a width and block size whose bits do not fill the last vector.
BytLenFormulaReached ==
  pc = "sized" /\ elm_per_blk = 24 /\ elm_bit_len = 13 /\ byt = 64

\* C5: bit_len(U) is the smallest w such that every lane delta between
\* adjacent rows of U is below 2^w; it is 0 exactly when all rows are equal.
\* Neither a reference nor the spread inside a row takes part.
BitLenIsDeltaWidth ==
  blk # <<>>
  => /\ bit = DeltaWidth(blk)
     /\ (bit = 0) <=> (\A e \in (ELM_PER_SMD + 1) .. Len(blk) :
                         blk[e] = blk[e - ELM_PER_SMD])

\* C5, a case: a block with a spread inside its rows and equal rows, whose
\* width is 0.
BitLenIsDeltaWidthReached ==
  /\ pc = "measured" /\ blk[2] # blk[1] /\ bit = 0
  /\ \A e \in (ELM_PER_SMD + 1) .. Len(blk) : blk[e] = blk[e - ELM_PER_SMD]

\* C6 as stated: with the reference U[0] for pack and unpack, the round trip
\* reproduces U at w = bit_len(U) and does not at any smaller w.
BitLenSmallestLossless ==
  (pc = "unpacked" /\ fst = blk[1] /\ unp_fst = blk[1])
  => /\ (elm_bit_len = bit => unp = blk)
     /\ (elm_bit_len < bit => unp # blk)

\* C6 amended: with the reference U[0], the round trip does not reproduce U
\* at any w below bit_len(U); it reproduces U at w = bit_len(U) when every
\* lane of the first row is less than 2^bit_len(U) above U[0] and, if
\* bit_len(U) is 0, U[0] is 0.
BitLenLosslessFromFirstRow ==
  (pc = "unpacked" /\ fst = blk[1] /\ unp_fst = blk[1])
  => /\ (elm_bit_len < bit => unp # blk)
     /\ (elm_bit_len = bit /\ FirstRowFits(blk, bit) /\ (bit = 0 => blk[1] = U32(0))
           => unp = blk)

\* C6, a case: a block with a spread inside its first row, round-tripped at
\* its detected width of 5 with reference U[0].
BitLenLosslessReached ==
  /\ pc = "unpacked" /\ fst = blk[1] /\ unp_fst = blk[1]
  /\ elm_bit_len = bit /\ bit = 5 /\ blk[2] # blk[1]
  /\ FirstRowFits(blk, bit)
  /\ unp = blk

\* C7 as stated: at w = 0, for every reference r and the block whose
\* elements all equal r, pack writes no byte and unpack reproduces the block.
ZeroWidthRoundTrip ==
  (pc = "unpacked" /\ elm_bit_len = 0 /\ unp_fst = fst /\ AllEqual(blk, fst))
  => /\ wr = {}
     /\ unp = blk

\* C7 amended: at w = 0 pack writes no byte and unpack sets every element to
\* 0, whatever the reference; so the block whose elements all equal r is
\* reproduced exactly when r = 0.
ZeroWidthZeroFills ==
  (pc = "unpacked" /\ elm_bit_len = 0)
  => /\ wr = {}
     /\ pck = pck0
     /\ AllEqual(unp, U32(0))
     /\ (AllEqual(blk, unp_fst) => ((unp = blk) <=> (unp_fst = U32(0))))

\* C7, a case: the block of zeros, round-tripped at width 0 with reference 0.
ZeroWidthReached ==
  /\ pc = "unpacked" /\ elm_bit_len = 0
  /\ fst = U32(0) /\ unp_fst = U32(0) /\ AllEqual(blk, U32(0))
  /\ unp = blk

\* C8: at w = 32 with an out buffer of exactly 4 * B bytes, the packed bytes
\* are the little-endian layout of U whatever the reference, and unpack
\* reproduces U whatever its reference.
FullWidthIsByteCopy ==
  (pc \in {"packed", "unpacked"} /\ elm_bit_len = 32
     /\ Len(pck0) = BYT_PER_ELM * elm_per_blk)
  => /\ IsLEImage(pck, blk)
     /\ (pc = "unpacked" => unp = blk)

\* C8, a case: a block of full-width deltas unpacked at width 32 with a
\* reference other than the one it was packed with.
FullWidthReached ==
  /\ pc = "unpacked" /\ elm_bit_len = 32 /\ Len(pck0) = BYT_PER_ELM * elm_per_blk
  /\ bit = 32 /\ unp_fst # fst
  /\ unp = blk

\* C9: pck, unp or byt_len called with a width outside 0..32 panics with a
\* message that names the width, and no byte of the output buffer has been
\* written.
BadWidthPanics ==
  (call \in {"pck", "unp", "byt_len"} /\ elm_bit_len \notin Widths)
  => /\ pc = "panicked"
     /\ panic = <<"unsupported bit-length", elm_bit_len>>
     /\ (call = "pck" => (wr = {} /\ pck = pck0))
     /\ (call = "unp" => (uw = {} /\ ovf = <<>> /\ AllEqual(unp, UnpPrior)))

\* C9, a case: unp called with width 255 on a packed block.
BadWidthReached ==
  call = "unp" /\ elm_bit_len = 255 /\ pc = "panicked" /\ Len(unp) = elm_per_blk

\* C10: the generator given B < 16 or B not a multiple of 8 emits a
\* diagnostic and no function; given any other B it emits all four functions
\* and no diagnostic.
GenValidatesBlockSize ==
  pc # "gen"
  => IF elm_per_blk < 16 \/ elm_per_blk % 8 # 0
     THEN diag # <<>> /\ fns = {} /\ pc = "rejected"
     ELSE diag = <<>> /\ fns = {"pck", "unp", "bit_len", "byt_len"}

\* C10, a case: a block size above the minimum that is not a multiple of 8.
GenValidatesReached ==
  pc = "rejected" /\ elm_per_blk = 20 /\ diag # <<>> /\ fns = {}

\* u <= v
WLe(u, v) ==
  \/ u = v
  \/ \E i \in 1 .. Len(v) : u[i] < v[i] /\ \A j \in 1 .. (i - 1) : u[j] = v[j]
\* U is strictly sorted.
StrictlySorted(U) == \A e \in 1 .. (Len(U) - 1) : U[e] # U[e + 1] /\ WLe(U[e], U[e + 1])
\* The largest inter-row lane delta of the sorted block U is g.
MaxDeltaIs(U, g) ==
  /\ \E e \in 1 .. (Len(U) - ELM_PER_SMD) : wrapping_sub(U[e + ELM_PER_SMD], U[e]) = g
  /\ \A e \in 1 .. (Len(U) - ELM_PER_SMD) : WLe(wrapping_sub(U[e + ELM_PER_SMD], U[e]), g)
\* A block of 256 elements, strictly sorted, with largest delta g, has been
\* measured.
Boundary(g) ==
  /\ pc \in {"measured", "packed", "unpacked"}
  /\ elm_per_blk = 256
  /\ StrictlySorted(blk)
  /\ MaxDeltaIs(blk, g)
\* What the scenario says of a block whose width is w and packed length L:
\* the detector returns w, the size oracle L, pack at w into L bytes stores
\* to exactly those, and unpack with r = 0 gives the block back.
Scenario(w, L) ==
  /\ bit = w
  /\ u32_blk_byt(elm_per_blk, bit).len = L
  /\ (pc = "packed" /\ elm_bit_len = w /\ Len(pck0) = L) => wr = 0 .. (L - 1)
  /\ (pc = "unpacked" /\ elm_bit_len = w /\ fst = U32(0) /\ unp_fst = U32(0)) => unp = blk

Limb(v, q) == IF q < Len(v) THEN v[Len(v) - q] ELSE 0
\* The 7-bit group g of v: bits 7g .. 7g + 6.
Group7(v, g) ==
  ( (Limb(v, (7 * g) \div 16) \div Pow2((7 * g) % 16))
    + (Limb(v, ((7 * g) \div 16) + 1) % Pow2(7)) * Pow2(16 - ((7 * g) % 16)) ) % Pow2(7)
\* Number of significant bits of v.
WBitLen(v) ==
  IF WIsZero(v) THEN 0
  ELSE LET i == CHOOSE i \in 1 .. Len(v) : v[i] # 0 /\ \A j \in 1 .. (i - 1) : v[j] = 0
       IN  16 * (Len(v) - i) + BitLen16(v[i])
\* ceil(n / 7)
CeilDiv7(n) == (n + 6) \div 7
\* The length of the prefix of bytes that ends at the first byte with the
\* high bit clear, the whole length if there is none.
StopLen(bytes) ==
  IF \E p \in 1 .. Len(bytes) : bytes[p] < BYT_HDR_MSK
  THEN CHOOSE p \in 1 .. Len(bytes) :
         bytes[p] < BYT_HDR_MSK /\ \A q \in 1 .. (p - 1) : bytes[q] >= BYT_HDR_MSK
  ELSE Len(bytes)
\* The last call was u32_unp / usize_unp on a slice no packer wrote.
RawCall == vfn = "unp" /\ vbuf = <<>>
\* Sum of u32_byt_len over the elements n .. of a sequence.
RECURSIVE SumBytLen(_, _)
SumBytLen(q, n) == IF n > Len(q) THEN 0 ELSE u32_byt_len(q[n]) + SumBytLen(q, n + 1)

\* C11: VARINT round trip, for u32 and usize: with a destination long enough
\* pack(v) returns byt_len(v), and unpack of the bytes written (or of the
\* whole destination) returns val = v and len = byt_len(v), without a panic.
VrnRoundTrip ==
  /\ (vfn = "pck" /\ Len(vbuf0) >= vlen) => (vpanic = <<>> /\ vret = vlen)
  /\ (vfn = "unp" /\ ~RawCall) =>
       (vpanic = <<>> /\ vret = vlen /\ vout = [val |-> vin, len |-> vlen])
\* A usize of 64 significant bits went through pack and unpack.
VrnRoundTripReached ==
  /\ vpc = "unpacked"
  /\ vbits = USIZE_BITS
  /\ vin = WLowBits(USIZE_BITS, USIZE_BITS)
  /\ vlen = 10
  /\ Len(vsrc) = 10
  /\ vout.val = vin

\* C12: VARINT length: byt_len(v) is 1 for v = 0 and ceil(bit_width(v) / 7)
\* otherwise, so it is k at 2^(7k) - 1 and k + 1 at 2^(7k), and it is
\* monotonic non-decreasing in v.
VrnLenFormula ==
  vfn = "byt_len" =>
    /\ vlen = IF WIsZero(vin) THEN 1 ELSE CeilDiv7(WBitLen(vin))
    /\ \A k \in 1 .. ((vbits - 1) \div 7) :
         /\ vin = WOneBit(7 * k, vbits) => vlen = k + 1
         /\ vin = WLowBits(7 * k, vbits) => vlen = k
    /\ \A u \in VrnValues(vbits) :
         WLe(u, vin) => (IF vbits = U32_BITS THEN u32_byt_len(u) ELSE usize_byt_len(u)) <= vlen
\* The length of 2^28, the first u32 of 5 bytes, was asked.
VrnLenFormulaReached ==
  /\ vfn = "byt_len"
  /\ vbits = U32_BITS
  /\ vin = WOneBit(28, U32_BITS)
  /\ vlen = 5

\* C13: VARINT wire format: pack(v) emits the 7-bit groups of v, least
\* significant first; every byte but the last has its high bit set and the
\* last has it clear.  2^7 - 1 is 7F, 2^7 is 80 01, 2^14 - 1 is FF 7F and
\* 2^14 is 80 80 01.
VrnWireFormat ==
  vpc = "packed" =>
    /\ \A p \in 1 .. vret :
         /\ vbuf[p] % BYT_HDR_MSK = Group7(vin, p - 1)
         /\ (vbuf[p] >= BYT_HDR_MSK) <=> (p < vret)
    /\ \A g \in vret .. (vbits \div 7) : Group7(vin, g) = 0
    /\ vin = WLowBits(7, vbits) => SubSeq(vbuf, 1, vret) = <<127>>
    /\ vin = WOneBit(7, vbits) => SubSeq(vbuf, 1, vret) = <<128, 1>>
    /\ vin = WLowBits(14, vbits) => SubSeq(vbuf, 1, vret) = <<255, 127>>
    /\ vin = WOneBit(14, vbits) => SubSeq(vbuf, 1, vret) = <<128, 128, 1>>
\* 2^14 was packed as a u32 into 80 80 01.
VrnWireFormatReached ==
  /\ vpc = "packed"
  /\ vbits = U32_BITS
  /\ vin = WOneBit(14, U32_BITS)
  /\ SubSeq(vbuf, 1, vret) = <<128, 128, 1>>

\* C14: unpack on an arbitrary byte slice does not fail, and returns len =
\* the number of bytes up to and with the first byte whose high bit is
\* clear, or the whole length of the input if there is none, for inputs of
\* any length.
VrnUnpStopsAtEnd ==
  RawCall => (vpanic = <<>> /\ vout.len = StopLen(vsrc))
\* The same in a build without overflow checks, and in any build for an
\* input with no more continuation bytes than 7-bit groups start inside
\* the integer.
VrnUnpStopsAtEndUnchecked ==
  (RawCall /\ (~vchk \/ 7 * (StopLen(vsrc) - 1) < vbits)) =>
    (vpanic = <<>> /\ vout.len = StopLen(vsrc))
\* In a build with overflow checks, the byte at a shift count of at least
\* the width of the integer panics.
VrnUnpPanicsChecked ==
  (RawCall /\ vchk /\ 7 * (StopLen(vsrc) - 1) >= vbits) => vpanic = ShlOverflow

\* C16: VARINT sequence codec: u32s_byt_len(src) is the sum of u32_byt_len
\* over the elements and the number of bytes u32s_pck writes (no byte after
\* them is written), and u32s_unp of those bytes into a zeroed destination
\* of src.len() elements gives src.
SeqRoundTrip ==
  /\ vfn = "u32s_byt_len" => vlen = SumBytLen(vin, 1)
  /\ (vfn = "u32s_pck" /\ Len(vbuf0) >= vlen) =>
       /\ vpanic = <<>>
       /\ vret = vlen
       /\ \A p \in (vret + 1) .. Len(vbuf) : vbuf[p] = vbuf0[p]
       /\ \A p \in 1 .. vret : (vbuf[p] < BYT_HDR_MSK) \/ p < vret
  /\ (vfn = "u32s_unp" /\ Len(vsrc) = vlen) => (vpanic = <<>> /\ vout = vin)
\* The sequence 0, 1, 128, 16384, 2097152 went through the codec in 11 bytes.
SeqRoundTripReached ==
  /\ vpc = "seq_unpacked"
  /\ vin = <<U32(0), U32(1), U32(128), U32(16384), U32(2097152)>>
  /\ vlen = 11
  /\ Len(vsrc) = 11
  /\ vout = vin

\* ------------------------------------------- properties of the schedule iterator
\* The last call of next yielded a step.
Stepped == itr.kind \in {"Fst", "Mdl", "Lst"}
\* The item of the last step yielded, and the one before it.
CurItm == itr.self.prv
PrvItm == itr.old.prv
\* BBITS = w * B
BBits == itr.w * itr.B

\* C17 (safety): blk_bit_sum grows on every step by lne_bit_len * 8 > 0 and
\* never exceeds w * B; next returns None only at w * B, after at most two
\* steps per vector of the block, and every later call returns None too.
ItrSumBounded ==
  /\ itr.pc # "none" => CurItm.blk_bit_sum <= BBits
  /\ Stepped =>
       /\ CurItm.blk_bit_sum > PrvItm.blk_bit_sum
       /\ CurItm.blk_bit_sum = PrvItm.blk_bit_sum + CurItm.lne_bit_len * ELM_PER_SMD
       /\ itr.nones = 0
  /\ itr.kind = "None" =>
       /\ CurItm.blk_bit_sum = BBits
       /\ itr.n <= 2 * (itr.B \div ELM_PER_SMD)
  /\ itr.pc = "done" => itr.kind = "None"
\* C17: schedule termination: for every w in 1..31 and every supported B,
\* blk_bit_sum strictly increases on every step, never exceeds w * B,
\* reaches exactly w * B after finitely many steps, and the iterator then
\* yields no further step.
ItrTerminates ==
  /\ []ItrSumBounded
  /\ (itr.pc = "iter") ~> (itr.pc = "done" /\ CurItm.blk_bit_sum = BBits)
\* The schedule of (31, 256) ran to its end, and next was called again.
ItrTerminatesReached ==
  /\ itr.pc = "done"
  /\ itr.w = 31
  /\ itr.B = 256
  /\ itr.n > itr.B \div ELM_PER_SMD
  /\ itr.nones = MaxNones
  /\ CurItm.blk_bit_sum = 31 * 256

\* C18: step classification: the first step, and only it, is Fst, and it
\* contributes w bits with no shift; then come Mdl steps, none of which has
\* blk_bit_sum = w * B; the step at which blk_bit_sum becomes w * B is the
\* one Lst, and no step follows it.
StepClasses ==
  /\ itr.n >= 1 => itr.fsts = 1
  /\ (itr.kind = "Fst") <=> (Stepped /\ itr.n = 1)
  /\ itr.kind = "Fst" =>
       /\ CurItm.shf_dir = "Zro"
       /\ CurItm.shf_len = 0
       /\ CurItm.lne_bit_len = itr.w
       /\ CurItm.lne_bit_sum = itr.w
       /\ CurItm.blk_bit_sum = itr.w * ELM_PER_SMD
  /\ itr.kind = "Mdl" => CurItm.blk_bit_sum # BBits
  /\ itr.kind = "Lst" => CurItm.blk_bit_sum = BBits
  /\ itr.lsts = (IF itr.n >= 1 /\ CurItm.blk_bit_sum = BBits THEN 1 ELSE 0)
  /\ itr.after_lst = 0
  /\ itr.pc = "done" => (itr.fsts = 1 /\ itr.lsts = 1 /\ itr.n >= 2)
\* The schedule of (13, 24) ended: one Fst, Mdl steps, one Lst.
StepClassesReached ==
  /\ itr.pc = "done"
  /\ itr.w = 13
  /\ itr.B = 24
  /\ itr.fsts = 1
  /\ itr.lsts = 1
  /\ itr.n > 3

\* C19: branching rule: after the first step, with s and p the lne_bit_sum
\* and lne_bit_len of the step before and LIM = 32 - w + 1, the step is
\* Forward(s, w, s + w) if s < LIM, else ForwardPartial(s, 32 - s, 32) if
\* s < 32, else Zero(w, w) if p = w, else Back(p, w - p, w - p); and at
\* every step lne_bit_sum <= 32 and 1 <= lne_bit_len <= w.
BranchRule ==
  /\ (Stepped /\ itr.n >= 2) =>
       LET s == PrvItm.lne_bit_sum
           p == PrvItm.lne_bit_len
           w == itr.w
       IN  IF s < 32 - w + 1 THEN
             /\ CurItm.shf_dir = "Fwd"
             /\ CurItm.shf_len = s
             /\ CurItm.lne_bit_len = w
             /\ CurItm.lne_bit_sum = s + w
           ELSE IF s < 32 THEN
             /\ CurItm.shf_dir = "FwdPrt"
             /\ CurItm.shf_len = s
             /\ CurItm.lne_bit_len = 32 - s
             /\ CurItm.lne_bit_sum = 32
           ELSE IF p = w THEN
             /\ CurItm.shf_dir = "Zro"
             /\ CurItm.lne_bit_len = w
             /\ CurItm.lne_bit_sum = w
           ELSE
             /\ CurItm.shf_dir = "Bck"
             /\ CurItm.shf_len = p
             /\ CurItm.lne_bit_len = w - p
             /\ CurItm.lne_bit_sum = w - p
  /\ Stepped =>
       /\ CurItm.lne_bit_sum <= 32
       /\ 1 <= CurItm.lne_bit_len
       /\ CurItm.lne_bit_len <= itr.w
\* A Zero step after the first was taken: the step before filled the lane
\* with a whole element.
BranchRuleReached ==
  /\ Stepped
  /\ itr.n >= 2
  /\ itr.w = 16
  /\ CurItm.shf_dir = "Zro"
  /\ PrvItm.lne_bit_sum = 32
  /\ PrvItm.lne_bit_len = 16

\* C20: straddle pairing: a ForwardPartial step is never the last and the
\* step after it is a Back; the step before a Back is a ForwardPartial; the
\* Back's shf_len is the ForwardPartial's lne_bit_len, and the two
\* lne_bit_len add up to w.
StraddlePairs ==
  /\ Stepped =>
       /\ PrvItm.shf_dir = "FwdPrt" => CurItm.shf_dir = "Bck"
       /\ CurItm.shf_dir = "Bck" =>
            /\ itr.n >= 2
            /\ PrvItm.shf_dir = "FwdPrt"
            /\ CurItm.shf_len = PrvItm.lne_bit_len
            /\ CurItm.lne_bit_len + PrvItm.lne_bit_len = itr.w
       /\ CurItm.shf_dir = "FwdPrt" => BlkItrNext(itr.self).some
  /\ itr.kind = "None" => CurItm.shf_dir # "FwdPrt"
\* A Back step was taken after a ForwardPartial, at w = 13.
StraddlePairsReached ==
  /\ Stepped
  /\ itr.w = 13
  /\ CurItm.shf_dir = "Bck"
  /\ PrvItm.shf_dir = "FwdPrt"
  /\ PrvItm.lne_bit_len = 6
  /\ CurItm.lne_bit_len = 7

\* ------------------------------------------------ properties of the pack arm
\* The last turn of the loop of the arm expanded a step.
ArmStepped == arm.kind \in {"Fst", "Mdl", "Lst"}
\* The sequence 0, 1, .., n - 1.
UpTo(n) == Tup([i \in 1 .. n |-> i - 1])

\* C21: pack store order: for every w in 1..31 and supported B, a step
\* stores a packed vector exactly when it is a Mdl step with lne_bit_sum = 32
\* or the Lst step; the stores go to the slots 0, 1, 2, .. in this order,
\* none skipped or written twice; every step but a Back loads one vector of
\* unp, the vectors 0 .. B/8 - 1 in this order, each once.
PckStoreOrder ==
  /\ arm.pc # "none" =>
       /\ arm.st.sts = UpTo(Len(arm.st.sts))
       /\ arm.st.lds = UpTo(Len(arm.st.lds))
       /\ arm.st.wr = 0 .. (BYT_PER_SMD * Len(arm.st.sts) - 1)
  /\ ArmStepped =>
       /\ Len(arm.st.sts) = arm.sts0 +
            (IF \/ arm.kind = "Mdl" /\ arm.itm.lne_bit_sum = BIT_PER_LNE
                \/ arm.kind = "Lst"
             THEN 1 ELSE 0)
       /\ Len(arm.st.lds) = arm.lds0 + (IF arm.itm.shf_dir = "Bck" THEN 0 ELSE 1)
  /\ arm.pc = "done" =>
       /\ Len(arm.st.lds) = arm.B \div ELM_PER_SMD
       /\ Len(arm.st.sts) = (arm.w * arm.B + BIT_PER_SMD - 1) \div BIT_PER_SMD
\* The arm of width 13 for 256 elements was expanded to its end: 13 stores,
\* 32 loads, and more steps than loads (some were Back steps).
PckStoreOrderReached ==
  /\ arm.pc = "done"
  /\ arm.w = 13
  /\ arm.B = 256
  /\ arm.st.sts = UpTo(13)
  /\ arm.st.lds = UpTo(32)
  /\ arm.n > 32

\* C22: the Lst step is never a ForwardPartial: for every w in 1..31 and
\* supported B, blk_bit_sum is a whole number of elements per lane (a
\* multiple of w * 8) exactly after the steps that complete an element
\* (Zero, Forward, Back), so it is w * B only after such a step, and neither
\* the Lst step nor the last step before None is a ForwardPartial.
LstCompletesElement ==
  /\ Stepped =>
       /\ CurItm.shf_dir \in {"Zro", "Fwd", "Bck", "FwdPrt"}
       /\ (CurItm.blk_bit_sum % (itr.w * ELM_PER_SMD) = 0) <=> (CurItm.shf_dir # "FwdPrt")
       /\ CurItm.blk_bit_sum = BBits => CurItm.shf_dir \in {"Zro", "Fwd", "Bck"}
  /\ itr.kind = "Lst" => CurItm.shf_dir \in {"Zro", "Fwd", "Bck"}
  /\ itr.kind = "None" => CurItm.shf_dir \in {"Zro", "Fwd", "Bck"}
\* The schedule of (12, 24) ended on the Back half of a straddle.
LstCompletesElementReached ==
  /\ itr.kind = "Lst"
  /\ itr.w = 12
  /\ itr.B = 24
  /\ CurItm.shf_dir = "Bck"
  /\ PrvItm.shf_dir = "FwdPrt"
  /\ CurItm.blk_bit_sum = 12 * 24

\* The bytes of the out buffers that the stores made so far cover.
ArmStored == 1 .. (BYT_PER_SMD * Len(arm.st.sts))

\* C23: pack output is a function of (w, r, U) only: for w in 1..31 and a
\* block representable at w, the runs of the arm on two out buffers with
\* different prior contents hold the same bytes in every vector stored, at
\* the end in 0 .. byt_len(w) - 1, the bytes past them keeping their
\* different prior contents; and in the last packed vector every lane bit
\* at or above the final lne_bit_sum is 0.
PckOutputPure ==
  (arm.pc # "none" /\ Representable(arm.w, arm.fst, arm.unp)) =>
    /\ Len(arm.st.pck) = Len(arm.st2.pck)
    /\ arm.st.sts = arm.st2.sts
    /\ \A p \in ArmStored : arm.st.pck[p] = arm.st2.pck[p]
    /\ \A p \in (1 .. Len(arm.st.pck)) \ ArmStored :
         arm.st.pck[p] = PckPrior /\ arm.st2.pck[p] = PckPriorAlt
    /\ arm.pc = "done" =>
         /\ BYT_PER_SMD * Len(arm.st.sts) = u32_blk_byt(arm.B, arm.w).len
         /\ \A l \in Lanes :
              /\ Below2(LoadBytes(arm.st.pck, Len(arm.st.sts) - 1)[l], arm.itm.lne_bit_sum)
              /\ Below2(LoadBytes(arm.st2.pck, Len(arm.st2.sts) - 1)[l], arm.itm.lne_bit_sum)
\* The arm of width 13 for 24 elements ran to its end on a block with 13
\* significant bits in every delta: the second, last vector holds bits in
\* the low 7 of every lane only, and the two buffers differ past it.
PckOutputPureReached ==
  /\ arm.pc = "done"
  /\ arm.w = 13
  /\ arm.B = 24
  /\ Representable(arm.w, arm.fst, arm.unp)
  /\ ~Representable(arm.w - 1, arm.fst, arm.unp)
  /\ arm.itm.lne_bit_sum = 7
  /\ Len(arm.st.sts) = 2
  /\ LoadBytes(arm.st.pck, 1) = set1(LowBits(7))
  /\ LoadBytes(arm.st2.pck, 1) = set1(LowBits(7))
  /\ arm.st.pck # arm.st2.pck
====
